---- MODULE Spec2Model ----
(***************************************************************************)
(* A model of the chain syncer of go-filecoin (chain/syncer.go): callers   *)
(* present a ChainInfo to Syncer.HandleNewTipSet, which fetches the chain  *)
(* back to a stored ancestor, validates it in height order with syncOne    *)
(* and advances the head of the chain store under the chain selector.      *)
(* The second part models the outbound message queue and its policy        *)
(* (message.Queue, message.NewMessageQueuePolicy), which removes mined     *)
(* messages from the queue and expires old ones on every new head.         *)
(***************************************************************************)
EXTENDS Integers, Sequences, FiniteSets, TLC

\* ------------------------------------------------------------------ bounds

\* Height of the highest block of the block universe.
MaxHeight == 2
\* Number of goroutines calling HandleNewTipSet.
NumCallers == 2
\* Number of blocks the state evaluator rejects.
MaxInvalid == 1
\* The highest nonce of a message of the message queue.
MaxNonce == 3

\* ------------------------------------------------------- program constants

UntrustedChainHeightLimit == 600

\* The maximum age in rounds of a queued message:
\* message.NewMessageQueuePolicy(blocks, 10).
ExpiryWindow == 10

\* ---------------------------------------------------------- block universe

Procs == 1 .. NumCallers

\* Two blocks are built on every parent tipset, so that sibling tipsets exist
\* at every height.
Lanes == {1, 2}

\* A block is <<height, lane>>; the pair stands for its CID.
GenesisBlock == <<0, 1>>

Blocks == {GenesisBlock} \cup {<<h, k>> : h \in 1 .. MaxHeight, k \in Lanes}

\* Builder.BuildToTip: a block's height is its parent's height plus one.
BlockHeight(b) == b[1]

\* Builder.BuildToTip: a block's Parents is the key of the tipset it is built
\* on. Blocks of height 1 are built on genesis, higher blocks on the
\* lane-1 singleton of the height below.
BlockParents(b) ==
  IF b[1] = 0 THEN {}
  ELSE IF b[1] = 1 THEN {GenesisBlock}
  ELSE {<<b[1] - 1, 1>>}

\* The absent tipset (the parent of genesis); also the empty TipSetKey.
UndefTipSet == {}

\* types.NewTipSet: the blocks are not empty and agree on height and parents.
\* A tipset is identified with its key, the set of its blocks' CIDs.
NewTipSetOK(blocks) ==
  /\ blocks # {}
  /\ \A a, b \in blocks :
       /\ BlockHeight(a) = BlockHeight(b)
       /\ BlockParents(a) = BlockParents(b)

TipSets == {s \in SUBSET Blocks : NewTipSetOK(s)}

Genesis == {GenesisBlock}

\* TipSet.Height
Height(ts) == IF ts = {} THEN 0 ELSE BlockHeight(CHOOSE b \in ts : TRUE)

\* TipSet.Parents
Parents(ts) == IF ts = {} THEN {} ELSE BlockParents(CHOOSE b \in ts : TRUE)

\* TipSet.Defined
Defined(ts) == ts # UndefTipSet

\* ------------------------------------------------------- state evaluator

\* cid.Undef
UndefRoot == [st |-> {}]

\* The state root RunStateTransition computes for a tipset.
StateRootOf(ts) == [st |-> ts]

\* ------------------------------------------------------- chain selector

\* The weight one block adds: the lane-2 blocks are mined with more power.
BlockWeight(b) == IF b[2] = 1 THEN 1 ELSE 3

RECURSIVE SumWeights(_)
SumWeights(bs) ==
  IF bs = {} THEN 0
  ELSE LET b == CHOOSE x \in bs : TRUE
       IN BlockWeight(b) + SumWeights(bs \ {b})

\* The weight of the chain ending in ts.
RECURSIVE Weight(_)
Weight(ts) ==
  IF ts = {} \/ ts = Genesis THEN 0
  ELSE SumWeights(ts) + Weight(Parents(ts))

\* ChainSelector.IsHeavier: a is strictly heavier than b; ties favour b.
IsHeavier(a, b) == Weight(a) > Weight(b)

\* ------------------------------------------------------------ chain store

\* TipSetAndState
TipSetAndState(ts, root) == [TipSet |-> ts, TipSetStateRoot |-> root]

\* Store.HasTipSetAndState
HasTipSetAndState(store, key) == \E e \in store : e.TipSet = key

\* Store.PutTipSetAndState
PutTipSetAndState(store, tsas) ==
  IF HasTipSetAndState(store, tsas.TipSet) THEN store ELSE store \cup {tsas}

\* Store.GetTipSetStateRoot (defined when HasTipSetAndState)
GetTipSetStateRoot(store, key) ==
  (CHOOSE e \in store : e.TipSet = key).TipSetStateRoot

\* Store.GetTipSetAndStatesByParentsAndHeight
GetTipSetAndStatesByParentsAndHeight(store, pkey, h) ==
  {e \in store : Parents(e.TipSet) = pkey /\ Height(e.TipSet) = h}

\* Store.HasTipSetAndStatesWithParentsAndHeight
HasTipSetAndStatesWithParentsAndHeight(store, pkey, h) ==
  GetTipSetAndStatesByParentsAndHeight(store, pkey, h) # {}

\* ----------------------------------------------------------- message queue

\* The two senders of the queue policy's tests.
Senders == {"alice", "bob"}

\* message.NewQueue(): no sender has a queued message.
NewQueue == [s \in Senders |-> <<>>]

\* No error from an operation on the queue.
QueueOK == [type |-> "nil", got |-> 0, expected |-> 0]

\* The record of an operation on the queue, for its caller to examine: the
\* operation, its arguments, the queue before it and its result.
CallRecord(op, old, new, before, err) ==
  [op |-> op, old |-> old, new |-> new, before |-> before, err |-> err]

\* ------------------------------------------------------------------ state

VARIABLES
  chainStore,   \* Syncer.chainStore: the set of stored TipSetAndState
  head,         \* the chain store's head key
  badTipSets,   \* Syncer.badTipSets: the keys of the bad-tipset cache
  mu,           \* Syncer.mu: the set of callers holding the lock
  invalid,      \* the blocks the state evaluator rejects
  proc,         \* per caller: its position in HandleNewTipSet and its locals
  queue,        \* message.Queue: per sender, the queued messages in order
  call,         \* the operation on the queue that has just returned, if any
  mj            \* MemoryJournal: its topics and its writers with their entries

vars == <<chainStore, head, badTipSets, mu, invalid, proc, queue, call, mj>>

\* nil
NoError == "nil"

\* ----------------------------------------------------------------- journal

\* th.NewFakeSystemClock(time.Unix(1234567890, 0)).Now()
Now == 1234567890

\* NewInMemoryJournal: no topics, no writers.
NewInMemoryJournal == [topics |-> {}, writers |-> <<>>]

\* &MemoryWriter{clock, topic}
MemoryWriter(topic) == [topic |-> topic, entries |-> <<>>]

\* entry{time, event, kvs}
Entry(time, event, kvs) == [time |-> time, event |-> event, kvs |-> kvs]

\* out[keyStr] = value on a map held as a set of <<key, value>> pairs.
MapPut(out, key, value) == {kv \in out : kv[1] # key} \cup {<<key, value>>}

\* The loop of extractKeyValues from index i (counted from 0) on.
RECURSIVE ExtractFrom(_, _, _)
ExtractFrom(kvs, i, out) ==
  IF ~(i < Len(kvs)) THEN [err |-> NoError, out |-> out]
  ELSE IF i = Len(kvs) - 1 THEN [err |-> "dangling field", out |-> {}]
  ELSE LET key   == kvs[i + 1]
           value == kvs[i + 2]
       IN IF key.type # "string"
          THEN [err |-> "key is not of type string", out |-> {}]
          ELSE ExtractFrom(kvs, i + 2, MapPut(out, key.val, value))

\* extractKeyValues(kvs...): the map of the keys to their values, or an error
\* for a key without a value or a key that is no string.
extractKeyValues(kvs) ==
  IF Len(kvs) = 0 THEN [err |-> NoError, out |-> {}]
  ELSE IF Len(kvs) = 1 THEN [err |-> "dangling field", out |-> {}]
  ELSE ExtractFrom(kvs, 0, {})

\* MemoryJournal.Topic(topic): panics if the topic is in mj.topics, else
\* appends a new writer and returns it (writer is its place in mj.writers).
\* Nothing puts a topic into mj.topics.
Topic(j, topic) ==
  IF topic \in j.topics
  THEN [panic |-> TRUE, mj |-> j, writer |-> 0]
  ELSE [panic |-> FALSE,
        mj |-> [j EXCEPT !.writers = Append(@, MemoryWriter(topic))],
        writer |-> Len(j.writers) + 1]

\* MemoryWriter.Write(event, kvs...) on the writer at place w: panics on the
\* error of extractKeyValues, else appends one entry.
Write(j, w, event, kvs) ==
  LET extracted == extractKeyValues(kvs)
  IN IF extracted.err # NoError
     THEN [panic |-> TRUE, mj |-> j]
     ELSE [panic |-> FALSE,
           mj |-> [j EXCEPT !.writers[w].entries =
                     Append(@, Entry(Now, event, extracted.out))]]

\* A status update or a collaborator call made by one HandleNewTipSet call.
Event(ev, ts, h, b) == [ev |-> ev, ts |-> ts, h |-> h, h2 |-> 0, b |-> b]

\* The locals of a caller at syncer.mu.Lock().
IdleProc ==
  [pc |-> "lock", ciHead |-> {}, ciHeight |-> 0, trusted |-> FALSE,
   chain |-> <<>>, i |-> 0, parent |-> {}, grandParent |-> {}, wts |-> {},
   next |-> {}, phase |-> "none", priorHeadKey |-> {}, err |-> NoError,
   reported |-> FALSE, events |-> <<>>,
   store0 |-> {}, head0 |-> {}, bad0 |-> {}]

\* NewSyncer, on a store that holds genesis as its head.
Init ==
  /\ chainStore = {TipSetAndState(Genesis, StateRootOf(Genesis))}
  /\ head = Genesis
  /\ badTipSets = {}
  /\ mu = {}
  /\ invalid \in {s \in SUBSET (Blocks \ {GenesisBlock}) : Cardinality(s) <= MaxInvalid}
  /\ proc = [p \in Procs |-> IdleProc]
  /\ queue = NewQueue
  /\ mj = NewInMemoryJournal
  /\ call = CallRecord("none", <<>>, <<>>, NewQueue, QueueOK)

\* ------------------------------------------------------- HandleNewTipSet

\* A lock that never blocks.
LockFree_Never_Blocks(m) == TRUE

\* The mutex is free (sync.Mutex.Lock blocks until it is).
LockFree(m) == m = {}

\* syncer.mu.Lock(): a caller of HandleNewTipSet is blocked until the mutex
\* is free and then enters the critical section.
Lock(p) ==
  /\ proc[p].pc = "lock"
  /\ LockFree(mu)
  /\ mu' = mu \cup {p}
  /\ proc' = [proc EXCEPT ![p] =
                [IdleProc EXCEPT !.pc = "check", !.store0 = chainStore,
                                 !.head0 = head, !.bad0 = badTipSets]]
  /\ UNCHANGED <<chainStore, head, badTipSets, invalid, queue, call, mj>>

\* The heights a peer may declare for a head: the head's own height, and the
\* two heights around the untrusted limit above the current head.
DeclaredHeights(ts, curHeight) ==
  {Height(ts), curHeight + UntrustedChainHeightLimit,
   curHeight + UntrustedChainHeightLimit + 1}

\* The length check off by one: the limit itself is rejected.
ExceedsUntrustedChainLength_AtLimit(curHeight, newHeight) ==
  newHeight >= curHeight + UntrustedChainHeightLimit

\* ExceedsUntrustedChainLength
ExceedsUntrustedChainLength(curHeight, newHeight) ==
  LET maxChainLength == curHeight + UntrustedChainHeightLimit
  IN newHeight > maxChainLength

\* The return of HandleNewTipSet without the deferred status update.
Return_Unreported(pr, err) == [pr EXCEPT !.pc = "ret", !.err = err]

\* The return of HandleNewTipSet with err: the deferred
\* UpdateStatus(syncComplete(true)) runs if it was registered.
Return(pr, err) ==
  [pr EXCEPT !.pc = "ret", !.err = err,
             !.events = IF pr.reported
                        THEN Append(@, Event("syncComplete", {}, 0, TRUE))
                        ELSE @]

\* The first status update of HandleNewTipSet and the untrusted length check.
CheckLength(pr, curHeight) ==
  LET started == [pr EXCEPT
        !.reported = TRUE,
        !.events = @ \o <<Event("syncingStarted", pr.ciHead, 0, FALSE),
                          Event("syncComplete", {}, 0, FALSE)>>]
  IN IF ~pr.trusted /\ ExceedsUntrustedChainLength(curHeight, pr.ciHeight)
     THEN Return(started, "ErrNewChainTooLong")
     ELSE [started EXCEPT !.pc = "fetch"]

\* The already-stored check left out.
AlreadySynced_Never(store, key) == FALSE

\* The store already has the declared head: the syncer is finished.
AlreadySynced(store, key) == HasTipSetAndState(store, key)

\* HandleNewTipSet(ci, trusted) up to the fetch: the already-stored check,
\* the read of the current head, the first status update and the untrusted
\* length check. ci.Height and trusted are first read after the
\* already-stored check.
Check(p) ==
  /\ proc[p].pc = "check"
  /\ \E h \in TipSets :
       LET pr == [proc[p] EXCEPT !.ciHead = h]
       IN IF AlreadySynced(chainStore, pr.ciHead)
          THEN proc' = [proc EXCEPT ![p] = Return(pr, NoError)]
          ELSE IF ~HasTipSetAndState(chainStore, head)
          THEN proc' = [proc EXCEPT ![p] = Return(pr, "store")]
          ELSE \E t \in BOOLEAN :
                 \E ht \in DeclaredHeights(h, Height(head)) :
                   proc' = [proc EXCEPT ![p] =
                              CheckLength([pr EXCEPT !.ciHeight = ht,
                                                     !.trusted = t],
                                          Height(head))]
  /\ UNCHANGED <<chainStore, head, badTipSets, mu, invalid, queue, call, mj>>

\* A done callback that never stops the fetch.
DoneFetching_Never(store, t) == FALSE

\* The fetch stopped as soon as the blocks of the parents are all held by
\* tipsets of the store.
DoneFetching_BlocksPresent(store, t) ==
  Parents(t) \subseteq UNION {e.TipSet : e \in store}

\* The done callback HandleNewTipSet gives the fetcher: the fetch stops at a
\* tipset whose parents the store holds with their state.
DoneFetching(store, t) == HasTipSetAndState(store, Parents(t))

\* Fetcher.FetchTipSets: the tipsets from key back to the first one the done
\* callback accepts, in traversal order.
RECURSIVE FetchTipSets(_, _)
FetchTipSets(store, key) ==
  IF key = UndefTipSet THEN <<>>
  ELSE IF DoneFetching(store, key) THEN <<key>>
  ELSE <<key>> \o FetchTipSets(store, Parents(key))

\* Reverse
Reverse(s) == [j \in 1 .. Len(s) |-> s[Len(s) + 1 - j]]

\* The chain left in the fetcher's traversal order.
HeightOrder_Unreversed(fetched) == fetched

\* HandleNewTipSet turns the fetcher's traversal order into height order.
HeightOrder(fetched) == Reverse(fetched)

\* The status updates of the done callback for the first n fetched tipsets.
FetchEvents(fetched, n) ==
  [j \in 1 .. n |-> Event("fetchHead", fetched[j], Height(fetched[j]), FALSE)]

\* ancestorsFromStore: the parent and grandparent of ts out of the store, as
\* <<error, parent, grandParent>>.
AncestorsFromStore(store, ts) ==
  LET parentCids == Parents(ts)
  IN IF ~HasTipSetAndState(store, parentCids)
     THEN <<"store", UndefTipSet, UndefTipSet>>
     ELSE LET grandParentCids == Parents(parentCids)
          IN IF grandParentCids = {}
             THEN <<NoError, parentCids, UndefTipSet>>
             ELSE IF ~HasTipSetAndState(store, grandParentCids)
             THEN <<"store", UndefTipSet, UndefTipSet>>
             ELSE <<NoError, parentCids, grandParentCids>>

\* HandleNewTipSet from the fetch to the start of the loop. The fetch fails
\* (blocks unavailable, context cancelled) after any number of callbacks, or
\* returns the whole chain. ci.Height and trusted are not read after the
\* length check, and the model forgets them here.
Fetch(p) ==
  /\ proc[p].pc = "fetch"
  /\ LET pr == [proc[p] EXCEPT !.ciHeight = 0, !.trusted = FALSE]
         fetched == FetchTipSets(chainStore, pr.ciHead)
         begun == Append(pr.events, Event("fetchComplete", {}, 0, FALSE))
         ended(n) == Append(begun \o FetchEvents(fetched, n),
                            Event("fetchComplete", {}, 0, TRUE))
     IN \/ \E n \in 0 .. Len(fetched) :
             proc' = [proc EXCEPT ![p] =
                        Return([pr EXCEPT !.events = ended(n)], "fetch")]
        \/ LET chain == HeightOrder(fetched)
               anc == AncestorsFromStore(chainStore, chain[1])
               got == [pr EXCEPT !.events = ended(Len(fetched)),
                                 !.chain = chain]
           IN IF anc[1] # NoError
              THEN proc' = [proc EXCEPT ![p] = Return(got, anc[1])]
              ELSE proc' = [proc EXCEPT ![p] =
                              [got EXCEPT !.parent = anc[2],
                                          !.grandParent = anc[3],
                                          !.i = 0, !.pc = "widen"]]
  /\ UNCHANGED <<chainStore, head, badTipSets, mu, invalid, queue, call, mj>>

\* The smallest number of blocks of a candidate.
MaxLen_Fewest(candidates) ==
  CHOOSE n \in {Cardinality(c.TipSet) : c \in candidates} :
    \A c \in candidates : Cardinality(c.TipSet) >= n

\* The largest number of blocks of a candidate.
MaxLen(candidates) ==
  CHOOSE n \in {Cardinality(c.TipSet) : c \in candidates} :
    \A c \in candidates : Cardinality(c.TipSet) <= n

\* widen, given the stored candidate max it picked: the union of ts and max,
\* or undefined when the union is ts or max.
WidenWith(ts, max) ==
  LET wts == ts \cup max
  IN IF wts = ts \/ wts = max THEN UndefTipSet ELSE wts

\* widen: the tipsets it may return. The store lists the candidates in no
\* fixed order and widen keeps the first of the largest ones.
Widen(store, ts) ==
  LET candidates ==
        GetTipSetAndStatesByParentsAndHeight(store, Parents(ts), Height(ts))
  IN IF ~HasTipSetAndStatesWithParentsAndHeight(store, Parents(ts), Height(ts))
     THEN {UndefTipSet}
     ELSE {WidenWith(ts, c.TipSet) :
             c \in {c \in candidates : Cardinality(c.TipSet) = MaxLen(candidates)}}

\* The un-widened tipset synced in every case.
NeedsUnwidened_Always(wts, chain) == TRUE

\* The un-widened tipset is synced too.
NeedsUnwidened(wts, chain) == ~Defined(wts) \/ Len(chain) > 1

\* The first iteration of the loop up to its first syncOne: widen chain[0]
\* and sync the widened tipset if there is one, else chain[0].
WidenFirst(p) ==
  /\ proc[p].pc = "widen"
  /\ LET pr == proc[p]
         ts == pr.chain[1]
     IN \E wts \in Widen(chainStore, ts) :
          proc' = [proc EXCEPT ![p] =
                     IF Defined(wts)
                     THEN [pr EXCEPT !.wts = wts, !.next = wts,
                                     !.phase = "widened", !.pc = "syncOne"]
                     ELSE [pr EXCEPT !.next = ts, !.phase = "chain",
                                     !.pc = "syncOne"]]
  /\ UNCHANGED <<chainStore, head, badTipSets, mu, invalid, queue, call, mj>>

\* badTipSetCache.AddChain
AddChain(bad, chain) == bad \cup {chain[j] : j \in 1 .. Len(chain)}

\* chain[i+1:], the chain after the failed tipset.
ChainFrom_AfterFailed(chain, i) == SubSeq(chain, i + 2, Len(chain))

\* chain[i:]
ChainFrom(chain, i) == SubSeq(chain, i + 1, Len(chain))

\* The error of syncOne ignored.
SyncOneFailed_Ignored(err) == FALSE

\* HandleNewTipSet's test of the error syncOne returned.
SyncOneFailed(err) == err # NoError

\* HandleNewTipSet after a syncOne that returned err: return the error, or
\* sync the un-widened first tipset, or move to the next tipset of the chain,
\* or return nil at the end of the chain.
AfterSyncOne(pr, err) ==
  IF SyncOneFailed(err) THEN Return(pr, err)
  ELSE IF pr.phase = "widened" /\ NeedsUnwidened(pr.wts, pr.chain)
  THEN [pr EXCEPT !.next = pr.chain[pr.i + 1], !.phase = "chain",
                  !.pc = "syncOne"]
  ELSE LET advanced == [pr EXCEPT !.grandParent = pr.parent,
                                  !.parent = pr.chain[pr.i + 1],
                                  !.i = pr.i + 1]
       IN IF advanced.i >= Len(pr.chain)
          THEN Return(advanced, NoError)
          ELSE [advanced EXCEPT !.next = pr.chain[advanced.i + 1],
                                !.phase = "chain", !.pc = "syncOne"]

\* A failed sync of a tipset of the chain adding the whole chain.
BadAfterSyncOne_WholeChain(bad, pr, err) ==
  IF SyncOneFailed(err) /\ pr.phase = "chain"
  THEN AddChain(bad, pr.chain)
  ELSE bad

\* The bad-tipset cache after a syncOne that returned err: a failed sync of a
\* tipset of the chain adds chain[i:].
BadAfterSyncOne(bad, pr, err) ==
  IF SyncOneFailed(err) /\ pr.phase = "chain"
  THEN AddChain(bad, ChainFrom(pr.chain, pr.i))
  ELSE bad

\* syncOne returns err to HandleNewTipSet.
SyncOneReturns(p, pr, err) ==
  /\ proc' = [proc EXCEPT ![p] = AfterSyncOne(pr, err)]
  /\ badTipSets' = BadAfterSyncOne(badTipSets, pr, err)

\* The check for a tipset that is the head already left out.
AlreadyHead_Never(priorHeadKey, next) == FALSE

\* syncOne: the tipset is the head already, "we've been here before".
AlreadyHead(priorHeadKey, next) == priorHeadKey = next

\* syncOne, first step: read the head; a tipset that is the head already is
\* done.
SyncOneBegin(p) ==
  /\ proc[p].pc = "syncOne"
  /\ LET pr == [proc[p] EXCEPT
                  !.priorHeadKey = head,
                  !.events = Append(@, Event("syncOne", proc[p].next,
                                             Height(proc[p].next), FALSE))]
     IN IF AlreadyHead(pr.priorHeadKey, pr.next)
        THEN SyncOneReturns(p, pr, NoError)
        ELSE /\ proc' = [proc EXCEPT ![p] = [pr EXCEPT !.pc = "validate"]]
             /\ UNCHANGED badTipSets
  /\ UNCHANGED <<chainStore, head, mu, invalid, queue, call, mj>>

\* GetRecentAncestors walks the store from the parent back: every ancestor
\* it visits must be stored.
RECURSIVE AncestorsStored(_, _)
AncestorsStored(store, ts) ==
  IF ts = UndefTipSet THEN TRUE
  ELSE HasTipSetAndState(store, ts) /\ AncestorsStored(store, Parents(ts))

\* StateEvaluator.RunStateTransition accepts the tipset.
RunStateTransitionOK(bad, ts) == ts \cap bad = {}

\* A put that keeps one tipset per height: the new tipset takes the place of
\* those stored at its height.
PutValidated_Replacing(store, ts) ==
  {e \in store : Height(e.TipSet) # Height(ts)}
    \cup {TipSetAndState(ts, StateRootOf(ts))}

\* The validated tipset not put into the store.
PutValidated_Skipped(store, ts) == store

\* What syncOne puts into the store for a validated tipset.
PutValidated(store, ts) ==
  PutTipSetAndState(store, TipSetAndState(ts, StateRootOf(ts)))

\* syncOne, second step: parent state, ancestors, messages and receipts,
\* parent weight, the state transition, and the put of the new tipset.
SyncOneValidate(p) ==
  /\ proc[p].pc = "validate"
  /\ LET pr == proc[p]
     IN IF \/ ~HasTipSetAndState(chainStore, pr.parent)
           \/ ~AncestorsStored(chainStore, pr.parent)
        THEN SyncOneReturns(p, pr, "store") /\ UNCHANGED chainStore
        ELSE \E loaded \in BOOLEAN :
          IF ~loaded
          THEN SyncOneReturns(p, pr, "load") /\ UNCHANGED chainStore
          ELSE IF Defined(pr.grandParent)
                  /\ ~HasTipSetAndState(chainStore, pr.grandParent)
          THEN SyncOneReturns(p, pr, "store") /\ UNCHANGED chainStore
          ELSE LET ran == [pr EXCEPT !.events =
                             Append(@, Event("RunStateTransition", pr.next,
                                             Height(pr.next), FALSE))]
               IN IF ~RunStateTransitionOK(invalid, pr.next)
                  THEN SyncOneReturns(p, ran, "invalid") /\ UNCHANGED chainStore
                  ELSE /\ chainStore' = PutValidated(chainStore, pr.next)
                       /\ proc' = [proc EXCEPT ![p] = [ran EXCEPT !.pc = "weigh"]]
                       /\ UNCHANGED badTipSets
  /\ UNCHANGED <<head, mu, invalid, queue, call, mj>>

\* The two iterators advanced together whatever their heights.
RECURSIVE FindCommonAncestor_Lockstep(_, _, _)
FindCommonAncestor_Lockstep(store, left, right) ==
  IF left = UndefTipSet \/ right = UndefTipSet THEN UndefTipSet
  ELSE IF left = right THEN left
  ELSE LET nextOf(ts) ==
             IF Parents(ts) = {} \/ HasTipSetAndState(store, Parents(ts))
             THEN Parents(ts) ELSE UndefTipSet
       IN FindCommonAncestor_Lockstep(store, nextOf(left), nextOf(right))

\* IterAncestors and FindCommonAncestor: the iterator over the higher tipset
\* is advanced (through the store) until the two meet; the undefined tipset
\* stands for ErrNoCommonAncestor or a failed store read.
RECURSIVE FindCommonAncestor(_, _, _)
FindCommonAncestor(store, left, right) ==
  IF left = UndefTipSet \/ right = UndefTipSet THEN UndefTipSet
  ELSE IF left = right THEN left
  ELSE LET nextOf(ts) ==
             IF Parents(ts) = {} \/ HasTipSetAndState(store, Parents(ts))
             THEN Parents(ts) ELSE UndefTipSet
       IN FindCommonAncestor(
            store,
            IF Height(left) >= Height(right) THEN nextOf(left) ELSE left,
            IF Height(right) >= Height(left) THEN nextOf(right) ELSE right)

\* IsReorg
IsReorg(cur, new, common) == common # cur

\* ReorgDiff, as <<dropped, added>>
ReorgDiff(cur, new, common) ==
  <<Height(cur) - Height(common), Height(new) - Height(common)>>

\* logReorg counting every head change as a reorg.
LogReorg_EveryChange(store, curHead, newHead) ==
  LET commonAncestor == FindCommonAncestor(store, curHead, newHead)
      diff == ReorgDiff(curHead, newHead, commonAncestor)
  IN <<[ev |-> "reorg", ts |-> commonAncestor, h |-> diff[1],
        h2 |-> diff[2], b |-> TRUE]>>

\* logReorg reporting the two heights of the diff in each other's place.
LogReorg_DiffSwapped(store, curHead, newHead) ==
  LET commonAncestor == FindCommonAncestor(store, curHead, newHead)
  IN IF commonAncestor = UndefTipSet THEN <<>>
     ELSE IF IsReorg(curHead, newHead, commonAncestor)
     THEN LET diff == ReorgDiff(curHead, newHead, commonAncestor)
          IN <<[ev |-> "reorg", ts |-> commonAncestor, h |-> diff[2],
                h2 |-> diff[1], b |-> TRUE]>>
     ELSE <<>>

\* logReorg: the events of a head change from curHead to newHead.
LogReorg(store, curHead, newHead) ==
  LET commonAncestor == FindCommonAncestor(store, curHead, newHead)
  IN IF commonAncestor = UndefTipSet THEN <<>>
     ELSE IF IsReorg(curHead, newHead, commonAncestor)
     THEN LET diff == ReorgDiff(curHead, newHead, commonAncestor)
          IN <<[ev |-> "reorg", ts |-> commonAncestor, h |-> diff[1],
                h2 |-> diff[2], b |-> TRUE]>>
     ELSE <<>>

\* SetHead that does not look the tipset up.
SetHead_Unchecked(store, hd, ts) == [err |-> NoError, head |-> ts]

\* Store.SetHead: the tipset must have been put; the result is the error and
\* the head of the store afterwards.
SetHead(store, hd, ts) ==
  IF HasTipSetAndState(store, ts)
  THEN [err |-> NoError, head |-> ts]
  ELSE [err |-> "store", head |-> hd]

\* The head set whatever the chain selector says.
ShouldSetHead_Always(heavier) == TRUE

\* syncOne sets the head to next.
ShouldSetHead(heavier) == heavier

\* next compared with its own parent instead of the head.
HeadToCompare_Parent(pr) == pr.parent

\* The tipset syncOne compares next with: the head it read in its first step.
HeadToCompare(pr) == pr.priorHeadKey

\* syncOne, last step: compare the new tipset with the head read in the
\* first step and make it the head if it is heavier.
SyncOneWeigh(p) ==
  /\ proc[p].pc = "weigh"
  /\ LET pr == proc[p]
         headTipSet == HeadToCompare(pr)
         headParentKey == Parents(headTipSet)
     IN IF \/ ~HasTipSetAndState(chainStore, pr.parent)
           \/ ~HasTipSetAndState(chainStore, headTipSet)
           \/ headParentKey # {} /\ ~HasTipSetAndState(chainStore, headParentKey)
        THEN SyncOneReturns(p, pr, "store") /\ UNCHANGED head
        ELSE IF ShouldSetHead(IsHeavier(pr.next, headTipSet))
        THEN IF SetHead(chainStore, head, pr.next).err # NoError
             THEN SyncOneReturns(p, pr, SetHead(chainStore, head, pr.next).err)
                  /\ UNCHANGED head
             ELSE /\ head' = SetHead(chainStore, head, pr.next).head
                  /\ SyncOneReturns(
                       p,
                       [pr EXCEPT !.events =
                          Append(@, Event("SetHead", pr.next, Height(pr.next), FALSE))
                          \o LogReorg(chainStore, headTipSet, pr.next)],
                       NoError)
        ELSE SyncOneReturns(p, pr, NoError) /\ UNCHANGED head
  /\ UNCHANGED <<chainStore, mu, invalid, queue, call, mj>>

\* An Unlock that runs on the nil path only: a call that returns an error
\* keeps the mutex.
Unlock_OnSuccess(p) ==
  /\ proc[p].pc = "ret"
  /\ proc[p].err = NoError
  /\ mu' = mu \ {p}
  /\ proc' = [proc EXCEPT ![p] = IdleProc]
  /\ UNCHANGED <<chainStore, head, badTipSets, invalid, queue, call, mj>>

\* The deferred syncer.mu.Unlock() as HandleNewTipSet returns.
Unlock(p) ==
  /\ proc[p].pc = "ret"
  /\ mu' = mu \ {p}
  /\ proc' = [proc EXCEPT ![p] = IdleProc]
  /\ UNCHANGED <<chainStore, head, badTipSets, invalid, queue, call, mj>>

Next ==
  \E p \in Procs :
    \/ Lock(p)
    \/ Check(p)
    \/ Fetch(p)
    \/ WidenFirst(p)
    \/ SyncOneBegin(p)
    \/ SyncOneValidate(p)
    \/ SyncOneWeigh(p)
    \/ Unlock(p)

Spec == Init /\ [][Next]_vars

\* ------------------------------------------------------------------ claims

\* The caller is between syncer.mu.Lock() and the deferred Unlock().
InCriticalSection(p) == proc[p].pc # "lock"

\* The store holds ts together with the state root of ts.
StoredWithState(store, ts) ==
  \E e \in store : e.TipSet = ts /\ e.TipSetStateRoot = StateRootOf(ts)
                   /\ e.TipSetStateRoot # UndefRoot

\* The tipsets of a sequence.
TipSetsOf(chain) == {chain[j] : j \in 1 .. Len(chain)}

\* The tipsets a call has passed to syncOne so far.
SyncedBy(pr) ==
  {pr.events[j].ts : j \in {k \in 1 .. Len(pr.events) : pr.events[k].ev = "syncOne"}}

\* The tipsets a call has passed to RunStateTransition so far.
EvaluatedBy(pr) ==
  {pr.events[j].ts :
     j \in {k \in 1 .. Len(pr.events) : pr.events[k].ev = "RunStateTransition"}}

\* The call has returned nil and still holds the lock.
Succeeded(pr) == pr.pc = "ret" /\ pr.err = NoError

\* C1: at most one caller of HandleNewTipSet is inside the critical section
\* at any time, and the head a syncOne call read as priorHead is still the
\* head of the store while that call validates, compares weights and sets
\* the head.
C1_LockKeepsPriorHead ==
  /\ \A p, q \in Procs : InCriticalSection(p) /\ InCriticalSection(q) => p = q
  /\ \A p \in Procs :
       proc[p].pc \in {"validate", "weigh"} => proc[p].priorHeadKey = head

\* C1 witness: one caller is about to set a heavier head while another
\* caller is blocked on the lock.
C1_Witness ==
  \E p, q \in Procs :
    /\ p # q
    /\ proc[p].pc = "weigh"
    /\ proc[q].pc = "lock"
    /\ mu = {p}
    /\ IsHeavier(proc[p].next, proc[p].priorHeadKey)

\* C2 as stated: after a call that returned nil, every tipset of the fetched
\* chain and every widened tipset is in the store with a state root.
C2_AllFetchedStored ==
  \A p \in Procs :
    Succeeded(proc[p]) =>
      /\ \A ts \in TipSetsOf(proc[p].chain) : StoredWithState(chainStore, ts)
      /\ Defined(proc[p].wts) => StoredWithState(chainStore, proc[p].wts)

\* C2 amended: after a call that returned nil, every widened tipset and every
\* tipset of the fetched chain is in the store with a state root, except the
\* only tipset of a one-tipset chain that was widened.
C2_FetchedStoredUnlessWidenedSingle ==
  \A p \in Procs :
    Succeeded(proc[p]) =>
      /\ \A ts \in TipSetsOf(proc[p].chain) :
           \/ StoredWithState(chainStore, ts)
           \/ Len(proc[p].chain) = 1 /\ Defined(proc[p].wts)
      /\ Defined(proc[p].wts) => StoredWithState(chainStore, proc[p].wts)

\* C2 witness: a call returned nil after syncing a widened tipset and a
\* chain of more than one tipset.
C2_Witness ==
  \E p \in Procs :
    /\ Succeeded(proc[p])
    /\ Defined(proc[p].wts)
    /\ Len(proc[p].chain) > 1
    /\ \A ts \in TipSetsOf(proc[p].chain) : StoredWithState(chainStore, ts)

\* C3: after a call that returned nil, the head is the prior head or a tipset
\* validated in the call, and neither the prior head nor any tipset validated
\* in the call is heavier than it.
C3_HeadIsHeaviest ==
  \A p \in Procs :
    Succeeded(proc[p]) =>
      LET candidates == {proc[p].head0} \cup SyncedBy(proc[p])
      IN /\ head \in candidates
         /\ \A ts \in candidates : ~IsHeavier(ts, head)

\* C3 witness: the prior head was the head of a longer fork, and the call
\* synced a shorter fork of greater weight, whose head is the head now.
C3_Witness ==
  \E p \in Procs :
    /\ Succeeded(proc[p])
    /\ head # proc[p].head0
    /\ head = proc[p].ciHead
    /\ Height(head) < Height(proc[p].head0)
    /\ IsHeavier(head, proc[p].head0)

\* C4: a step changes the head only as the last step of a syncOne whose
\* tipset the chain selector ranks heavier than the head, and the new head is
\* that tipset; when the selector does not rank it heavier (a tie included)
\* that step leaves the head unchanged and the tipset stored with its state.
C4_HeadChangesOnlyIfHeavier ==
  [][/\ head' # head =>
          \E p \in Procs :
            /\ proc[p].pc = "weigh"
            /\ IsHeavier(proc[p].next, proc[p].priorHeadKey)
            /\ head' = proc[p].next
     /\ \A p \in Procs :
          (proc[p].pc = "weigh" /\ proc'[p].pc # "weigh"
           /\ ~IsHeavier(proc[p].next, proc[p].priorHeadKey)) =>
            /\ head' = head
            /\ StoredWithState(chainStore', proc[p].next)]_vars

\* C4 witness: a call synced a fork whose head weighs the same as the head,
\* returned nil, and the head is the one from before the call.
C4_Witness ==
  \E p \in Procs :
    /\ Succeeded(proc[p])
    /\ Len(proc[p].chain) > 0
    /\ head = proc[p].head0
    /\ proc[p].ciHead # head
    /\ Weight(proc[p].ciHead) = Weight(head)
    /\ StoredWithState(chainStore, proc[p].ciHead)

\* C5 as stated: when the state transition of a tipset fails, the tipset of
\* the chain at the failing position (the failed tipset itself, or the one the
\* failed widened tipset was formed from) and every later tipset of the
\* fetched chain are in the bad-tipset cache when the call returns.
C5_FailedTipSetPoisoned ==
  \A p \in Procs :
    (proc[p].pc = "ret" /\ proc[p].err = "invalid") =>
      \A j \in 1 .. Len(proc[p].chain) :
        j >= proc[p].i + 1 => proc[p].chain[j] \in badTipSets

\* C6 as stated: a call whose fetched chain (which ends in the declared
\* head) contains a tipset that was in the bad-tipset cache when the call
\* began never runs the state transition on such a tipset, puts no tipset of
\* the chain into the store, and returns ErrChainHasBadTipSet.
C6_BadTipSetRejected ==
  \A p \in Procs :
    LET pr == proc[p]
    IN TipSetsOf(pr.chain) \cap pr.bad0 # {} =>
         /\ EvaluatedBy(pr) \cap pr.bad0 = {}
         /\ \A ts \in TipSetsOf(pr.chain) :
              HasTipSetAndState(chainStore, ts) => HasTipSetAndState(pr.store0, ts)
         /\ pr.pc = "ret" => pr.err = "ErrChainHasBadTipSet"

\* The events of a call that come from the fetcher.
FetchedBy(pr) ==
  {j \in 1 .. Len(pr.events) : pr.events[j].ev \in {"fetchHead", "fetchComplete"}}

\* C7: an untrusted call whose declared height is above the height of the
\* current head plus 600 returns ErrNewChainTooLong without fetching and with
\* store, head and bad-tipset cache unchanged; no other call returns that
\* error, so a declared height of exactly the current height plus 600 and any
\* height of a trusted call reach the fetch.
C7_UntrustedLengthLimit ==
  \A p \in Procs :
    LET pr == proc[p]
        tooLong == ~pr.trusted
                   /\ pr.ciHeight > Height(pr.head0) + UntrustedChainHeightLimit
    IN /\ (pr.pc = "ret" /\ pr.err = "ErrNewChainTooLong") =>
            /\ tooLong
            /\ FetchedBy(pr) = {}
            /\ chainStore = pr.store0
            /\ head = pr.head0
            /\ badTipSets = pr.bad0
       /\ pr.pc = "fetch" => ~tooLong
       /\ (pr.pc = "ret" /\ tooLong) => pr.err = "ErrNewChainTooLong"

\* C7 witness: an untrusted call that declared the current height plus 601
\* has returned ErrNewChainTooLong, the head being above genesis.
C7_Witness ==
  \E p \in Procs :
    /\ proc[p].pc = "ret"
    /\ proc[p].err = "ErrNewChainTooLong"
    /\ ~proc[p].trusted
    /\ proc[p].ciHeight = Height(head) + UntrustedChainHeightLimit + 1
    /\ Height(head) > 0

\* C8: a call whose declared head the store already holds returns nil at
\* once: no status update, no fetch, no state transition, and store, head and
\* bad-tipset cache as they were.
C8_AlreadyStoredReturns ==
  \A p \in Procs :
    LET pr == proc[p]
    IN (InCriticalSection(p) /\ pr.pc # "check"
        /\ HasTipSetAndState(pr.store0, pr.ciHead)) =>
         /\ Succeeded(pr)
         /\ pr.events = <<>>
         /\ chainStore = pr.store0
         /\ head = pr.head0
         /\ badTipSets = pr.bad0

\* C8 witness: a call for a stored tipset that is not the head has returned.
C8_Witness ==
  \E p \in Procs :
    /\ proc[p].pc = "ret"
    /\ HasTipSetAndState(proc[p].store0, proc[p].ciHead)
    /\ proc[p].ciHead # head
    /\ proc[p].ciHead # Genesis

\* The syncOne events of a call for tipsets of its fetched chain, in order.
ChainSyncs(pr) ==
  SelectSeq(pr.events,
            LAMBDA e : e.ev = "syncOne" /\ e.ts \in TipSetsOf(pr.chain))

\* C9: the chain a call validates is in strictly ascending height order, the
\* reverse of the traversal from the declared head; its tipsets are passed to
\* syncOne in that order; and whenever syncOne runs for a tipset, the parent
\* it is given is that tipset's parent and is stored with a state root.
C9_HeightOrderParentStored ==
  \A p \in Procs :
    LET pr == proc[p]
        synced == ChainSyncs(pr)
    IN /\ \A j, k \in 1 .. Len(pr.chain) :
            j < k => Height(pr.chain[j]) < Height(pr.chain[k])
       /\ Len(pr.chain) > 0 => pr.chain[Len(pr.chain)] = pr.ciHead
       /\ \A j \in 1 .. Len(synced) : synced[j].ts = pr.chain[j]
       /\ pr.pc \in {"syncOne", "validate", "weigh"} =>
            /\ pr.parent = Parents(pr.next)
            /\ StoredWithState(chainStore, pr.parent)

\* C9 witness: syncOne runs for the second tipset of a chain.
C9_Witness ==
  \E p \in Procs :
    /\ proc[p].pc = "validate"
    /\ proc[p].i = 1
    /\ Len(proc[p].chain) > 1
    /\ Len(ChainSyncs(proc[p])) = 2

\* C10: the head is always the key of a tipset stored with a state root, and
\* a syncOne that reaches the weight comparison and SetHead has put its
\* tipset with a state root before.
C10_HeadAlwaysStored ==
  /\ StoredWithState(chainStore, head)
  /\ \A p \in Procs :
       proc[p].pc = "weigh" => StoredWithState(chainStore, proc[p].next)

\* C10 witness: a call failed after an earlier tipset of its chain became
\* the head.
C10_Witness ==
  \E p \in Procs :
    /\ proc[p].pc = "ret"
    /\ proc[p].err # NoError
    /\ head # proc[p].head0
    /\ head \in TipSetsOf(proc[p].chain)

\* ================================================== message queue and policy

\* ---------------------------------------------------------------- messages

Nonces == 1 .. MaxNonce

\* MessageMaker.NewSignedMessage(from, nonce): sender and nonce identify it.
NewSignedMessage(from, nonce) == [from |-> from, nonce |-> nonce]

\* The nonces a sender signs messages with: alice sends up to MaxNonce
\* messages, bob fewer.
NoncesOf(s) == IF s = "alice" THEN Nonces ELSE {n \in Nonces : n <= 2}

SignedMessages ==
  UNION {{NewSignedMessage(s, n) : n \in NoncesOf(s)} : s \in Senders}

\* message.Queued: a message and the stamp it was enqueued with.
Queued(msg, stamp) == [Msg |-> msg, Stamp |-> stamp]

\* The stamps messages are enqueued with.
Stamps == {100, 101}

\* The lists of at most n distinct messages a block carries.
MessageLists(n) ==
  {<<>>} \cup {<<m>> : m \in SignedMessages}
         \cup {l \in {<<m1, m2>> : m1 \in SignedMessages, m2 \in SignedMessages} :
                 n >= 2 /\ l[1] # l[2]}

\* ------------------------------------------------------------------- queue

\* The error of an Enqueue behind the sender's queued nonces.
EnqueueError(nonce) == [type |-> "Enqueue", got |-> nonce, expected |-> 0]

\* The nonce-mismatch error reported with the nonces in the wrong places.
NonceMismatch_Swapped(got, expected) ==
  [type |-> "NonceMismatch", got |-> expected, expected |-> got]

\* The error of a mined message that is not the next of its sender's queue:
\* got is the nonce at the head of the queue, expected the mined nonce.
NonceMismatch(got, expected) ==
  [type |-> "NonceMismatch", got |-> got, expected |-> expected]

\* error.Error(): the text of an error, "nonce N, expected M".
ErrorText(err) == <<"nonce", err.got, "expected", err.expected>>

\* The nonces queued for a sender, in queue order.
QueuedNonces(qs) == [j \in 1 .. Len(qs) |-> qs[j].Msg.nonce]

\* Enqueue that refuses lower nonces only and accepts a queued nonce again.
EnqueueAccepts_SameNonce(q, msg) ==
  \A j \in 1 .. Len(q[msg.from]) : q[msg.from][j].Msg.nonce <= msg.nonce

\* Enqueue that accepts every message.
EnqueueAccepts_Always(q, msg) == TRUE

\* Enqueue accepts the message: no message with the same or a higher nonce
\* is queued for its sender.
EnqueueAccepts(q, msg) ==
  \A j \in 1 .. Len(q[msg.from]) : q[msg.from][j].Msg.nonce < msg.nonce

\* Queue.Enqueue(msg, stamp)
Enqueue(q, msg, stamp) ==
  IF EnqueueAccepts(q, msg)
  THEN [queue |-> [q EXCEPT ![msg.from] = Append(@, Queued(msg, stamp))],
        err |-> QueueOK]
  ELSE [queue |-> q, err |-> EnqueueError(msg.nonce)]

\* RemoveNext that reports success and leaves the head in the queue.
RemoveNext_KeepsHead(q, sender, expected) ==
  IF q[sender] = <<>> \/ Head(q[sender]).Msg.nonce = expected
  THEN [queue |-> q, err |-> QueueOK]
  ELSE [queue |-> q,
        err |-> NonceMismatch(Head(q[sender]).Msg.nonce, expected)]

\* Queue.RemoveNext(sender, expected): removes the head of the sender's queue
\* if it bears the expected nonce; an empty queue is left alone.
RemoveNext(q, sender, expected) ==
  IF q[sender] = <<>>
  THEN [queue |-> q, err |-> QueueOK]
  ELSE IF Head(q[sender]).Msg.nonce = expected
  THEN [queue |-> [q EXCEPT ![sender] = Tail(@)], err |-> QueueOK]
  ELSE [queue |-> q,
        err |-> NonceMismatch(Head(q[sender]).Msg.nonce, expected)]

\* A stamp counted as expired a round late.
Expired_RoundLate(stamp, threshold) == stamp + 1 < threshold

\* A stamp at the threshold counted as expired.
Expired_AtThreshold(stamp, threshold) == stamp <= threshold

\* A stamp is expired when it is strictly older than the threshold.
Expired(stamp, threshold) == stamp < threshold

\* Expiry that looks at the newest entry of a queue instead of the oldest.
ExpireBefore_Newest(q, threshold) ==
  [s \in Senders |->
     IF q[s] # <<>> /\ Expired(q[s][Len(q[s])].Stamp, threshold)
     THEN <<>> ELSE q[s]]

\* Expiry that drops only the expired entries of a queue.
ExpireBefore_EntryWise(q, threshold) ==
  [s \in Senders |->
     SelectSeq(q[s], LAMBDA e : ~Expired(e.Stamp, threshold))]

\* Queue.ExpireBefore(threshold): every sender whose oldest queued message
\* is expired loses its whole queue.
ExpireBefore(q, threshold) ==
  [s \in Senders |->
     IF q[s] # <<>> /\ Expired(Head(q[s]).Stamp, threshold)
     THEN <<>> ELSE q[s]]

\* ------------------------------------------------------ blocks and tipsets

\* A block of a new head: its height, ticket, CID and message list.
MinedBlock(h, ticket, cid, msgs) ==
  [height |-> h, ticket |-> ticket, cid |-> cid, messages |-> msgs]

\* Builder.BuildOneOn: a tipset of one block with the given messages.
BuildOneOn(h, msgs) == {MinedBlock(h, 1, 1, msgs)}

\* Two sibling blocks, each with at most one message, with every choice of
\* tickets; their CIDs order them as b1 < b2 whatever the tickets.
PeerTipSets(h) ==
  {{MinedBlock(h, t1, 1, m1), MinedBlock(h, t2, 2, m2)} :
     t1 \in {1, 2}, t2 \in {1, 2},
     m1 \in MessageLists(1), m2 \in MessageLists(1)}

\* Sibling blocks ordered by CID alone.
Precedes_ByCid(a, b) == a.cid < b.cid

\* The canonical order of the blocks of a tipset: by ticket, ties broken by
\* CID.
Precedes(a, b) ==
  \/ a.ticket < b.ticket
  \/ a.ticket = b.ticket /\ a.cid < b.cid

\* TipSet.At(0), At(1), ...: the blocks of a tipset in canonical order.
RECURSIVE CanonicalOrder(_)
CanonicalOrder(ts) ==
  IF ts = {} THEN <<>>
  ELSE LET first == CHOOSE b \in ts : \A c \in ts \ {b} : Precedes(b, c)
       IN <<first>> \o CanonicalOrder(ts \ {first})

\* TipSet.Height()
TipSetHeight(ts) == (CHOOSE b \in ts : TRUE).height

\* The messages of the blocks of a sequence, in order.
RECURSIVE BlockMessages(_)
BlockMessages(blocks) ==
  IF blocks = <<>> THEN <<>>
  ELSE Head(blocks).messages \o BlockMessages(Tail(blocks))

\* The messages of a chain in the order the policy visits them: tipsets as
\* given, blocks in canonical order, messages in list order.
RECURSIVE MinedMessages(_)
MinedMessages(chain) ==
  IF chain = <<>> THEN <<>>
  ELSE BlockMessages(CanonicalOrder(Head(chain))) \o MinedMessages(Tail(chain))

\* The heights of the new heads the policy is told of.
HeadHeights == {1, 110, 111}

\* The chains added by a new head, in ascending height: none (a pure
\* truncation), the genesis tipset, one tipset of one or two blocks, or two
\* tipsets of one block each.
NewChains ==
  {<<>>, <<BuildOneOn(0, <<>>)>>}
  \cup UNION {{<<ts>> : ts \in {BuildOneOn(h, m) : m \in MessageLists(2)}
                               \cup PeerTipSets(h)} : h \in HeadHeights}
  \cup {<<BuildOneOn(h - 1, m1), BuildOneOn(h, m2)>> :
          h \in HeadHeights, m1 \in MessageLists(1), m2 \in MessageLists(1)}

\* The chains dropped by a new head: none, or a tipset with a mined message.
OldChains ==
  {<<>>, <<BuildOneOn(1, <<NewSignedMessage("alice", 1)>>)>>}

\* ------------------------------------------------------------------ policy

\* The height of the new chain: the greatest height of its tipsets.
NewHeight(new) ==
  CHOOSE h \in {TipSetHeight(new[j]) : j \in 1 .. Len(new)} :
    \A j \in 1 .. Len(new) : TipSetHeight(new[j]) <= h

\* The range of the unsigned heights: 2^64 in the program, 2^30 here, which
\* lies as far above every stamp and keeps to the integers of TLC.
UintRange == 2 ^ 30

\* A threshold computed by unsigned subtraction without a guard: below the
\* window it wraps around.
ExpiryThreshold_Wrapping(h) == (h - ExpiryWindow) % UintRange

\* The stamp below which queued messages expire at a head of height h; a
\* head lower than the window expires nothing.
ExpiryThreshold(h) == IF h >= ExpiryWindow THEN h - ExpiryWindow ELSE 0

\* The messages of the dropped chain put back at the end of their queues.
Requeued_AtBack(q, old) ==
  [s \in Senders |->
     LET dropped == SelectSeq(MinedMessages(old), LAMBDA m : m.from = s)
     IN q[s] \o [j \in 1 .. Len(dropped) |-> Queued(dropped[j], 101)]]

\* The messages of the dropped chain put back at the front of their queues.
Requeued_FromOld(q, old) ==
  [s \in Senders |->
     LET dropped == SelectSeq(MinedMessages(old), LAMBDA m : m.from = s)
     IN [j \in 1 .. Len(dropped) |-> Queued(dropped[j], 100)] \o q[s]]

\* The queue after the dropped chain is handled: nothing is put back.
Requeued(q, old) == q

\* The new chain calls for no action: it is empty, or all of height 0.
NoAction(new) ==
  \/ new = <<>>
  \/ \A j \in 1 .. Len(new) : TipSetHeight(new[j]) = 0

\* RemoveNext for the first mined message only.
RemoveMined_FirstOnly(q, msgs) ==
  IF msgs = <<>> THEN [queue |-> q, err |-> QueueOK]
  ELSE RemoveNext(q, Head(msgs).from, Head(msgs).nonce)

\* RemoveNext for every mined message in turn, up to the first error.
RECURSIVE RemoveMined(_, _)
RemoveMined(q, msgs) ==
  IF msgs = <<>> THEN [queue |-> q, err |-> QueueOK]
  ELSE LET r == RemoveNext(q, Head(msgs).from, Head(msgs).nonce)
       IN IF r.err # QueueOK THEN r ELSE RemoveMined(r.queue, Tail(msgs))

\* DefaultQueuePolicy.HandleNewHead(queue, oldChain, newChain)
HandleNewHead(q, old, new) ==
  LET q0 == Requeued(q, old)
  IN IF NoAction(new) THEN [queue |-> q0, err |-> QueueOK]
     ELSE LET r == RemoveMined(q0, MinedMessages(new))
          IN IF r.err # QueueOK THEN r
             ELSE [queue |-> ExpireBefore(r.queue,
                                          ExpiryThreshold(NewHeight(new))),
                   err |-> QueueOK]

\* ----------------------------------------------- operations on the queue

svars == <<chainStore, head, badTipSets, mu, invalid, proc>>

\* The nonces a sender's next message is enqueued with: any nonce on an empty
\* queue, else the next nonce or (to be refused) a queued one.
EnqueueNonces(s, qs) ==
  IF qs = <<>> THEN NoncesOf(s)
  ELSE {n \in NoncesOf(s) : n <= qs[Len(qs)].Msg.nonce + 1}

\* The stamps a sender's next message is enqueued with: stamps never
\* decrease along a queue.
EnqueueStamps(qs) ==
  IF qs = <<>> THEN Stamps
  ELSE {st \in Stamps : st >= qs[Len(qs)].Stamp}

\* No operation on the queue has just returned.
NoCall == CallRecord("none", <<>>, <<>>, NewQueue, QueueOK)

\* requireEnqueue(q, msg, stamp)
QEnqueue ==
  /\ call = NoCall
  /\ \E s \in Senders :
       \E n \in EnqueueNonces(s, queue[s]), st \in EnqueueStamps(queue[s]) :
         LET e == Queued(NewSignedMessage(s, n), st)
             r == Enqueue(queue, e.Msg, e.Stamp)
         IN /\ queue' = r.queue
            /\ call' = CallRecord("Enqueue", <<e>>, <<>>, queue, r.err)
  /\ UNCHANGED <<svars, mj>>

\* requireEnqueue(q, msg, stamp) right after a HandleNewHead that emptied the
\* sender's queue, with a nonce the queue held before: the record keeps the
\* sender's former entries.
QEnqueueAgain ==
  /\ call.op = "HandleNewHead"
  /\ call.err = QueueOK
  /\ \E s \in Senders :
       /\ queue[s] = <<>>
       /\ call.before[s] # <<>>
       /\ \E j \in 1 .. Len(call.before[s]), st \in Stamps :
            LET e == Queued(call.before[s][j].Msg, st)
                r == Enqueue(queue, e.Msg, e.Stamp)
            IN /\ queue' = r.queue
               /\ call' = CallRecord("Enqueue", <<e>>, call.before[s], queue,
                                     r.err)
  /\ UNCHANGED <<svars, mj>>

\* q.RemoveNext(sender, expected)
QRemoveNext ==
  /\ call = NoCall
  /\ \E s \in Senders, n \in Nonces :
       LET r == RemoveNext(queue, s, n)
       IN /\ queue' = r.queue
          /\ call' = CallRecord("RemoveNext", <<>>, <<>>, queue, r.err)
  /\ UNCHANGED <<svars, mj>>

\* q.ExpireBefore(threshold)
QExpireBefore ==
  /\ call = NoCall
  /\ \E threshold \in Stamps \cup {st + 1 : st \in Stamps} :
       /\ queue' = ExpireBefore(queue, threshold)
       /\ call' = CallRecord("ExpireBefore", <<>>, <<threshold>>, queue,
                             QueueOK)
  /\ UNCHANGED <<svars, mj>>

\* policy.HandleNewHead(ctx, q, old, new)
QHandleNewHead ==
  /\ call = NoCall
  /\ \E old \in OldChains, new \in NewChains :
       LET r == HandleNewHead(queue, old, new)
       IN /\ queue' = r.queue
          /\ call' = CallRecord("HandleNewHead", old, new, queue, r.err)
  /\ UNCHANGED <<svars, mj>>

\* The caller has examined the result of its operation.
QReturn ==
  /\ call # NoCall
  /\ call' = NoCall
  /\ UNCHANGED <<queue, svars, mj>>

\* A new queue and a new policy, beside a syncer that is never called.
InitQueue ==
  /\ chainStore = {TipSetAndState(Genesis, StateRootOf(Genesis))}
  /\ head = Genesis
  /\ badTipSets = {}
  /\ mu = {}
  /\ invalid = {}
  /\ proc = [p \in Procs |-> IdleProc]
  /\ queue = NewQueue
  /\ mj = NewInMemoryJournal
  /\ call = NoCall

NextQueue ==
  \/ QEnqueue
  \/ QEnqueueAgain
  \/ QRemoveNext
  \/ QExpireBefore
  \/ QHandleNewHead
  \/ QReturn

SpecQueue == InitQueue /\ [][NextQueue]_vars

\* ----------------------------------------------------- claims on the queue

\* HandleNewHead has just returned to its caller.
PolicyReturned == call.op = "HandleNewHead"

\* The nonces of the messages of a sender in a chain, in the order visited.
NoncesFrom(chain, s) ==
  LET mined == SelectSeq(MinedMessages(chain), LAMBDA m : m.from = s)
  IN [j \in 1 .. Len(mined) |-> mined[j].nonce]

\* The lesser of two numbers.
Min(a, b) == IF a <= b THEN a ELSE b

\* The place of the first mined nonce of a sender that is not the nonce queued
\* at the same place, 0 if there is none.
FirstMismatch(qs, mined) ==
  LET places == {j \in 1 .. Min(Len(qs), Len(mined)) :
                   qs[j].Msg.nonce # mined[j]}
  IN IF places = {} THEN 0
     ELSE CHOOSE j \in places : \A k \in places : j <= k

\* A queue from its entry at place j on.
QueueFrom(qs, j) == SubSeq(qs, j, Len(qs))

\* What expiry at a head of height h leaves of a queue: all of it, or nothing
\* when its first stamp is older than h less the window.
AfterExpiry(qs, h) ==
  IF qs # <<>> /\ Head(qs).Stamp + ExpiryWindow < h THEN <<>> ELSE qs

\* C11: a successful HandleNewHead has, for every sender, removed from the
\* head of the queue one entry per mined message of that sender, each with the
\* nonce of the mined message, in order; the messages mined beyond the end of
\* the queue are skipped without error; and a sender without a message in the
\* new chain has its queue changed by expiry only.
C11_MinedMessagesRemoved ==
  (PolicyReturned /\ call.err = QueueOK /\ call.new # <<>>) =>
    \A s \in Senders :
      LET mined == NoncesFrom(call.new, s)
          qs    == call.before[s]
          k     == Min(Len(qs), Len(mined))
      IN /\ \A j \in 1 .. k : qs[j].Msg.nonce = mined[j]
         /\ queue[s] = AfterExpiry(QueueFrom(qs, k + 1), NewHeight(call.new))

\* A call that removed the mined messages of one sender from a queue that
\* held more, and skipped a mined message of a sender whose queue was empty.
C11_Witness ==
  /\ PolicyReturned /\ call.err = QueueOK
  /\ \E s \in Senders :
       /\ NoncesFrom(call.new, s) # <<>>
       /\ queue[s] # <<>>
       /\ Len(queue[s]) = Len(call.before[s]) - Len(NoncesFrom(call.new, s))
  /\ \E s \in Senders :
       /\ NoncesFrom(call.new, s) # <<>>
       /\ call.before[s] = <<>>

\* C12: HandleNewHead fails exactly when some mined message finds another
\* nonce at the head of its sender's queue; the error is a NonceMismatch whose
\* text is "nonce N, expected M" with N the nonce at the head of that queue
\* and M the nonce of the mined message, and that queue still begins with the
\* entry of nonce N.
C12_NonceMismatchReported ==
  (PolicyReturned /\ ~NoAction(call.new)) =>
    /\ (call.err.type = "NonceMismatch") <=>
         (\E s \in Senders :
            FirstMismatch(call.before[s], NoncesFrom(call.new, s)) # 0)
    /\ (call.err.type = "NonceMismatch") =>
         \E s \in Senders :
           LET mined == NoncesFrom(call.new, s)
               j     == FirstMismatch(call.before[s], mined)
           IN /\ j # 0
              /\ queue[s] = QueueFrom(call.before[s], j)
              /\ ErrorText(call.err) =
                   <<"nonce", Head(queue[s]).Msg.nonce, "expected", mined[j]>>
              /\ mined[j] # Head(queue[s]).Msg.nonce

\* A call that failed on a mined nonce higher than the queued one, after it
\* had removed an entry of another sender.
C12_Witness ==
  /\ PolicyReturned
  /\ call.err.type = "NonceMismatch"
  /\ call.err.got < call.err.expected
  /\ \E s \in Senders : Len(queue[s]) < Len(call.before[s])

\* Blocks b and c are the two siblings of the only tipset of the new chain, b
\* carries only the message of sender s with nonce n, c only the one with
\* nonce n + 1, and the queue of s began with these two nonces.
SiblingsCarry(b, c, s, n) ==
  /\ call.new = <<{b, c}>>
  /\ b # c
  /\ b.messages = <<NewSignedMessage(s, n)>>
  /\ c.messages = <<NewSignedMessage(s, n + 1)>>
  /\ Len(call.before[s]) >= 2
  /\ call.before[s][1].Msg.nonce = n
  /\ call.before[s][2].Msg.nonce = n + 1

\* The call succeeded and removed the first two entries of the queue of s.
RemovedBoth(s) ==
  /\ call.err = QueueOK
  /\ queue[s] \in {<<>>, QueueFrom(call.before[s], 3)}

\* The siblings b and c of the new chain, with the sender and nonce they
\* carry.
SiblingCases ==
  {x \in [b : UNION {call.new[j] : j \in 1 .. Len(call.new)},
          c : UNION {call.new[j] : j \in 1 .. Len(call.new)},
          s : Senders, n : Nonces] :
     SiblingsCarry(x.b, x.c, x.s, x.n)}

\* C13 as stated: two siblings carrying nonces n and n + 1 of a sender are
\* handled successfully, both entries removed, if and only if the block with
\* nonce n has the smaller ticket, and the call fails with NonceMismatch when
\* the block with nonce n + 1 has the smaller ticket.
C13_SmallerTicketFirst ==
  PolicyReturned =>
    \A x \in SiblingCases :
      /\ RemovedBoth(x.s) <=> (x.b.ticket < x.c.ticket)
      /\ (x.c.ticket < x.b.ticket) => call.err.type = "NonceMismatch"

\* C13, amended: with different tickets the smaller ticket decides, whatever
\* the CIDs; with equal tickets the call succeeds if and only if the block
\* with nonce n has the smaller CID.
C13_TicketThenCidFirst ==
  PolicyReturned =>
    \A x \in SiblingCases :
      /\ (x.b.ticket < x.c.ticket) => RemovedBoth(x.s)
      /\ (x.c.ticket < x.b.ticket) =>
           (call.err.type = "NonceMismatch" /\ ~RemovedBoth(x.s))
      /\ (x.b.ticket = x.c.ticket) =>
           (RemovedBoth(x.s) <=> x.b.cid < x.c.cid)
      /\ RemovedBoth(x.s) \/ call.err.type = "NonceMismatch"

\* Siblings whose CIDs order them against their tickets: the block with the
\* smaller ticket and the greater CID carried nonce n, and both were removed.
C13_Witness ==
  /\ PolicyReturned
  /\ \E x \in SiblingCases :
       /\ x.b.ticket < x.c.ticket
       /\ x.b.cid > x.c.cid
       /\ RemovedBoth(x.s)

\* HandleNewHead has just returned without error from a new chain that called
\* for action.
PolicySucceeded ==
  PolicyReturned /\ call.err = QueueOK /\ ~NoAction(call.new)

\* What the removal of the mined messages left of the queue of sender s,
\* before expiry.
Unmined(s) ==
  QueueFrom(call.before[s],
            Min(Len(call.before[s]), Len(NoncesFrom(call.new, s))) + 1)

C15_ExpiryStartsAfterWindow ==
  PolicySucceeded =>
    \A s \in Senders :
      LET rest == Unmined(s)
          h    == NewHeight(call.new)
      IN rest # <<>> =>
           /\ (Head(rest).Stamp = h - ExpiryWindow) => queue[s] = rest
           /\ (Head(rest).Stamp = h - ExpiryWindow - 1) => queue[s] = <<>>

\* One call that kept the queue of a sender whose oldest stamp is the height
\* less the window, and expired that of a sender whose oldest stamp is one
\* less.
C15_Witness ==
  /\ PolicySucceeded
  /\ \E s \in Senders :
       /\ call.before[s] # <<>>
       /\ NoncesFrom(call.new, s) = <<>>
       /\ Head(call.before[s]).Stamp = NewHeight(call.new) - ExpiryWindow
       /\ queue[s] = call.before[s]
  /\ \E s \in Senders :
       /\ call.before[s] # <<>>
       /\ Head(call.before[s]).Stamp = NewHeight(call.new) - ExpiryWindow - 1
       /\ queue[s] = <<>>

\* C16: a sender whose oldest queued message expires loses its whole queue,
\* the entries with newer stamps too; the queue of a sender whose oldest
\* message does not expire keeps every entry.
C16_ExpiryEmptiesSender ==
  PolicySucceeded =>
    \A s \in Senders :
      LET rest == Unmined(s)
          h    == NewHeight(call.new)
      IN rest # <<>> =>
           IF Head(rest).Stamp < h - ExpiryWindow
           THEN queue[s] = <<>>
           ELSE queue[s] = rest

\* A call that emptied a queue holding an entry whose own stamp was not older
\* than the threshold, and left the queue of another sender unchanged.
C16_Witness ==
  /\ PolicySucceeded
  /\ \E s \in Senders :
       /\ queue[s] = <<>>
       /\ \E j \in 1 .. Len(Unmined(s)) :
            Unmined(s)[j].Stamp >= NewHeight(call.new) - ExpiryWindow
  /\ \E s \in Senders :
       call.before[s] # <<>> /\ queue[s] = call.before[s]

\* C17: HandleNewHead with an empty new chain succeeds and leaves every queue
\* as it was, whatever the old chain holds.
C17_TruncationDoesNothing ==
  (PolicyReturned /\ call.new = <<>>) =>
    /\ call.err = QueueOK
    /\ queue = call.before

\* A truncation that dropped a tipset with a mined message, on a queue that
\* held messages of both senders.
C17_Witness ==
  /\ PolicyReturned
  /\ call.new = <<>>
  /\ MinedMessages(call.old) # <<>>
  /\ \A s \in Senders : call.before[s] # <<>>

\* A queue is what is left of another after entries are taken from its head.
IsSuffix(qs, of) ==
  \E j \in 1 .. Len(of) + 1 : qs = QueueFrom(of, j)

\* C18: HandleNewHead adds no entry to any queue, so no message of the old
\* chain is put back, and its result is the one the same queue and new chain
\* give with no old chain at all.
C18_NothingRequeued ==
  PolicyReturned =>
    /\ \A s \in Senders : IsSuffix(queue[s], call.before[s])
    /\ LET r == HandleNewHead(call.before, <<>>, call.new)
       IN queue = r.queue /\ call.err = r.err

\* A call that dropped a tipset with the message of a sender just below the
\* head of that sender's queue, added a new chain, and left that queue alone.
C18_Witness ==
  /\ PolicyReturned
  /\ call.err = QueueOK
  /\ call.new # <<>>
  /\ \E s \in Senders :
       /\ queue[s] # <<>>
       /\ queue[s] = call.before[s]
       /\ \E j \in 1 .. Len(NoncesFrom(call.old, s)) :
            NoncesFrom(call.old, s)[j] + 1 = Head(queue[s]).Msg.nonce

\* The highest of the nonces of a non-empty sequence.
Highest(nonces) ==
  CHOOSE n \in {nonces[j] : j \in 1 .. Len(nonces)} :
    \A j \in 1 .. Len(nonces) : nonces[j] <= n

\* The queue of sender s begins just after the highest nonce of s in the new
\* chain.
HeadFollowsMined(s) ==
  /\ NoncesFrom(call.new, s) # <<>>
  /\ queue[s] # <<>>
  /\ Head(queue[s]).Msg.nonce = Highest(NoncesFrom(call.new, s)) + 1

\* C19 as stated: after HandleNewHead, every sender whose queue was not empty
\* has its queue begin just after its highest mined nonce, or has an empty
\* queue, or the call returned NonceMismatch.
C19_HeadFollowsMinedOrEmpty ==
  PolicyReturned =>
    \A s \in Senders :
      call.before[s] # <<>> =>
        \/ HeadFollowsMined(s)
        \/ queue[s] = <<>>
        \/ call.err.type = "NonceMismatch"

\* C19, amended: the same, or the sender has no message in the new chain and
\* its queue is as it was.
C19_HeadFollowsMinedUnlessNoneMined ==
  PolicyReturned =>
    \A s \in Senders :
      call.before[s] # <<>> =>
        \/ HeadFollowsMined(s)
        \/ queue[s] = <<>>
        \/ call.err.type = "NonceMismatch"
        \/ NoncesFrom(call.new, s) = <<>> /\ queue[s] = call.before[s]

\* A successful call after which one sender's queue begins just after its
\* mined nonce, and another sender, with nothing mined, keeps its queue.
C19_Witness ==
  /\ PolicyReturned
  /\ call.err = QueueOK
  /\ \E s \in Senders : call.before[s] # <<>> /\ HeadFollowsMined(s)
  /\ \E s \in Senders :
       /\ call.before[s] # <<>>
       /\ NoncesFrom(call.new, s) = <<>>
       /\ queue[s] = call.before[s]

PastStoredCheck(pr) ==
  pr.pc \notin {"lock", "check"} /\ ~HasTipSetAndState(pr.store0, pr.ciHead)

\* The positions of a call's events of kind ev with flag b.
EventsAt(pr, ev, b) ==
  {j \in 1 .. Len(pr.events) : pr.events[j].ev = ev /\ pr.events[j].b = b}

\* The positions of a call's events that are fetch callbacks, validations or
\* head changes.
WorkAt(pr) ==
  {j \in 1 .. Len(pr.events) :
     pr.events[j].ev \in {"fetchHead", "syncOne", "RunStateTransition",
                          "SetHead", "reorg"}}

\* The call has gone through the fetch.
PastFetch(pr) ==
  \/ pr.pc \in {"widen", "syncOne", "validate", "weigh"}
  \/ pr.pc = "ret" /\ pr.err # "ErrNewChainTooLong"

\* C21: a call that passed the already-stored check reported
\* syncingStarted and syncComplete(false) first, before any fetch or
\* validation; when it has returned, syncComplete(true) is its last update
\* and is reported on no earlier occasion; fetchComplete(false) and
\* fetchComplete(true) are each reported once when the call fetches, with
\* every fetch-head update between them and every validation after them, and
\* not at all when it returns ErrNewChainTooLong.
C21_StatusBracketsSync ==
  \A p \in Procs :
    LET pr == proc[p]
        n == Len(pr.events)
        fetchBegun == EventsAt(pr, "fetchComplete", FALSE)
        fetchEnded == EventsAt(pr, "fetchComplete", TRUE)
        fetchHeads == EventsAt(pr, "fetchHead", FALSE)
    IN PastStoredCheck(pr) =>
         /\ n >= 2
         /\ pr.events[1].ev = "syncingStarted"
         /\ EventsAt(pr, "syncComplete", FALSE) = {2}
         /\ \A j \in WorkAt(pr) : j > 2
         /\ EventsAt(pr, "syncComplete", TRUE)
              = IF pr.pc = "ret" THEN {n} ELSE {}
         /\ IF PastFetch(pr)
            THEN /\ fetchBegun = {3}
                 /\ Cardinality(fetchEnded) = 1
                 /\ \A j \in WorkAt(pr), k \in fetchEnded :
                      IF j \in fetchHeads THEN 3 < j /\ j < k ELSE k < j
            ELSE fetchBegun = {} /\ fetchEnded = {} /\ fetchHeads = {}

\* C21 witness: a call fetched two tipsets, validated the first, failed the
\* state transition of the second and has returned.
C21_Witness ==
  \E p \in Procs :
    /\ proc[p].pc = "ret"
    /\ proc[p].err = "invalid"
    /\ Cardinality(EventsAt(proc[p], "fetchHead", FALSE)) = 2
    /\ Cardinality(EventsAt(proc[p], "RunStateTransition", FALSE)) = 2

\* IterAncestors: the tipsets from ts back to genesis, each read from the
\* store; the walk ends at a tipset the store does not hold.
RECURSIVE IterAncestors(_, _)
IterAncestors(store, ts) ==
  IF ts = UndefTipSet \/ ~HasTipSetAndState(store, ts) THEN <<>>
  ELSE <<ts>> \o IterAncestors(store, Parents(ts))

\* The tipsets the store holds.
StoredTipSets(store) == {e.TipSet : e \in store}

\* The tipsets that IterAncestors yields from both a and b.
CommonAncestors(store, a, b) ==
  TipSetsOf(IterAncestors(store, a)) \cap TipSetsOf(IterAncestors(store, b))

\* C22: for any two tipsets of the store, FindCommonAncestor does not fail
\* (all stored tipsets descend from genesis), and the tipset it returns occurs
\* in the ancestors of both and is the highest tipset that does.
C22_HighestCommonAncestor ==
  \A a, b \in StoredTipSets(chainStore) :
    LET common == FindCommonAncestor(chainStore, a, b)
    IN /\ Defined(common)
       /\ common \in CommonAncestors(chainStore, a, b)
       /\ \A c \in CommonAncestors(chainStore, a, b) : Height(c) <= Height(common)

\* C22 witness: a head change was logged as a reorg whose common ancestor is
\* above genesis, while the store also holds a tipset of another height on a
\* different fork.
C22_Witness ==
  /\ \E p \in Procs : \E j \in 1 .. Len(proc[p].events) :
       /\ proc[p].events[j].ev = "reorg"
       /\ proc[p].events[j].ts # Genesis
  /\ \E a, b \in StoredTipSets(chainStore) :
       /\ Height(a) < Height(b)
       /\ a \notin TipSetsOf(IterAncestors(chainStore, b))
       /\ FindCommonAncestor(chainStore, a, b) = Genesis

\* C23: for any two tipsets cur and new of the store and the common ancestor
\* FindCommonAncestor returns for them, ReorgDiff gives two heights that are
\* not negative (the unsigned subtractions do not wrap) and that lead from
\* the common ancestor's height to cur's and to new's; a logged reorg reports
\* as added the height of the new head above the common ancestor, and as
\* dropped a height that is not negative.
C23_ReorgDiffNonNegative ==
  /\ \A cur, new \in StoredTipSets(chainStore) :
       LET common == FindCommonAncestor(chainStore, cur, new)
           diff == ReorgDiff(cur, new, common)
       IN /\ diff[1] >= 0
          /\ diff[2] >= 0
          /\ Height(common) + diff[1] = Height(cur)
          /\ Height(common) + diff[2] = Height(new)
  /\ \A p \in Procs : \A j \in 1 .. Len(proc[p].events) :
       proc[p].events[j].ev = "reorg" =>
         /\ j > 1
         /\ proc[p].events[j - 1].ev = "SetHead"
         /\ proc[p].events[j].h >= 0
         /\ proc[p].events[j].h2
              = Height(proc[p].events[j - 1].ts) - Height(proc[p].events[j].ts)

\* C23 witness: a reorg was logged that dropped two heights and added one.
C23_Witness ==
  \E p \in Procs : \E j \in 1 .. Len(proc[p].events) :
    /\ proc[p].events[j].ev = "reorg"
    /\ proc[p].events[j].h = 2
    /\ proc[p].events[j].h2 = 1

\* ------------------------------------------ chain store, used by any caller

\* No operation on the store is waiting for its caller.
NoStoreCall == CallRecord("none", {}, {}, {}, NoError)

\* A caller puts a tipset with its state root; the tipset may be stored
\* already and its parents need not be.
SPut ==
  /\ call = NoStoreCall
  /\ \E ts \in TipSets :
       /\ chainStore' = PutTipSetAndState(chainStore,
                                          TipSetAndState(ts, StateRootOf(ts)))
       /\ call' = CallRecord("Put", head, ts, chainStore, NoError)
  /\ UNCHANGED <<head, badTipSets, mu, invalid, proc, queue, mj>>

\* A caller sets the head to a tipset, stored or not.
SSetHead ==
  /\ call = NoStoreCall
  /\ \E ts \in TipSets :
       /\ head' = SetHead(chainStore, head, ts).head
       /\ call' = CallRecord("SetHead", head, ts, chainStore,
                             SetHead(chainStore, head, ts).err)
  /\ UNCHANGED <<chainStore, badTipSets, mu, invalid, proc, queue, mj>>

\* The caller has examined the result of its operation.
SReturn ==
  /\ call # NoStoreCall
  /\ call' = NoStoreCall
  /\ UNCHANGED <<chainStore, head, badTipSets, mu, invalid, proc, queue, mj>>

\* A new store with genesis put and set as its head.
InitStore ==
  /\ chainStore = {TipSetAndState(Genesis, StateRootOf(Genesis))}
  /\ head = Genesis
  /\ badTipSets = {}
  /\ mu = {}
  /\ invalid = {}
  /\ proc = [p \in Procs |-> IdleProc]
  /\ queue = NewQueue
  /\ mj = NewInMemoryJournal
  /\ call = NoStoreCall

NextStore == SPut \/ SSetHead \/ SReturn

SpecStore == InitStore /\ [][NextStore]_vars

\* C24: SetHead on a tipset that was not put returns an error and leaves the
\* head as it was, and SetHead on a stored tipset makes it the head; a Put
\* leaves the head as it was, a Put of an entry the store holds leaves the
\* store as it was, and the same Put once more leaves the store as after
\* the first.
C24_SetHeadNeedsPut ==
  /\ call.op = "SetHead" =>
       IF HasTipSetAndState(call.before, call.new)
       THEN call.err = NoError /\ head = call.new
       ELSE call.err # NoError /\ head = call.old
  /\ call.op = "Put" =>
       LET tsas == TipSetAndState(call.new, StateRootOf(call.new))
       IN /\ head = call.old
          /\ tsas \in chainStore
          /\ call.before \subseteq chainStore
          /\ tsas \in call.before => chainStore = call.before
          /\ PutTipSetAndState(chainStore, tsas) = chainStore

\* C24 witness: SetHead was refused for a tipset that is not stored, while
\* the store holds tipsets put after the head was set to something other
\* than genesis.
C24_Witness ==
  /\ call.op = "SetHead"
  /\ call.err # NoError
  /\ ~HasTipSetAndState(chainStore, call.new)
  /\ head # Genesis
  /\ Cardinality(chainStore) >= 3

\* The blocks of the tipsets a store holds.
StoredBlocks(store) == UNION StoredTipSets(store)

\* The tipsets of a call's fetch-head updates, in the order reported.
FetchHeads(pr) ==
  LET heads == SelectSeq(pr.events, LAMBDA e : e.ev = "fetchHead")
  IN [j \in 1 .. Len(heads) |-> heads[j].ts]

\* C25: the chain a call fetched begins at the tipset whose parents the
\* store held with their state and runs, parent to child, to the declared
\* head; none of its tipsets had a state entry in the store, whether the
\* store held their blocks or not, and each was requested from the fetcher;
\* a call that returns nil has validated each of them (but for the only
\* tipset of a widened one-tipset chain); and a call the fetcher did not
\* supply the chain to returns the fetcher's error.
C25_FetchStopsAtStoredState ==
  \A p \in Procs :
    LET pr == proc[p]
        n == Len(pr.chain)
    IN /\ n > 0 =>
            /\ pr.chain[n] = pr.ciHead
            /\ HasTipSetAndState(pr.store0, Parents(pr.chain[1]))
            /\ \A j \in 1 .. n :
                 /\ ~HasTipSetAndState(pr.store0, pr.chain[j])
                 /\ j > 1 => Parents(pr.chain[j]) = pr.chain[j - 1]
            /\ FetchHeads(pr) = Reverse(pr.chain)
            /\ Succeeded(pr) =>
                 \A j \in 1 .. n :
                   \/ pr.chain[j] \in EvaluatedBy(pr)
                   \/ n = 1 /\ Defined(pr.wts)
       /\ (pr.pc = "ret" /\ PastStoredCheck(pr) /\ PastFetch(pr) /\ n = 0) =>
            pr.err = "fetch"

\* C25 witness: a call fetched a chain of two tipsets whose first tipset had
\* no state entry although the store held all its blocks, and ran the state
\* transition on it.
C25_Witness ==
  \E p \in Procs :
    /\ Len(proc[p].chain) = 2
    /\ proc[p].chain[1] \subseteq StoredBlocks(proc[p].store0)
    /\ ~HasTipSetAndState(proc[p].store0, proc[p].chain[1])
    /\ proc[p].chain[1] \in EvaluatedBy(proc[p])

\* C26 as stated: when the call returns the error of the syncOne of the
\* widened first tipset, every tipset of the fetched chain is in the
\* bad-tipset cache.
C26_WidenedFailurePoisonsChain ==
  \A p \in Procs :
    (proc[p].pc = "ret" /\ proc[p].err # NoError
     /\ proc[p].phase = "widened" /\ Defined(proc[p].wts)) =>
      TipSetsOf(proc[p].chain) \subseteq badTipSets

\* The keys the bad-tipset cache has gained since the call took the lock.
PoisonedBy(pr) == badTipSets \ pr.bad0

\* C27 as stated: a call adds keys to the bad-tipset cache only when the
\* state transition of a tipset failed, and then only the keys of that tipset
\* and of the later tipsets of its chain; a call that fails otherwise adds
\* none.
C27_OnlyInvalidPoisoned ==
  \A p \in Procs :
    LET pr == proc[p]
    IN (InCriticalSection(p) /\ PoisonedBy(pr) # {}) =>
         /\ pr.pc = "ret"
         /\ pr.err = "invalid"
         /\ PoisonedBy(pr) \subseteq TipSetsOf(ChainFrom(pr.chain, pr.i))

\* C27 amended: a call adds keys to the bad-tipset cache only when syncOne of
\* a tipset of its fetched chain returned an error, whatever the error (a
\* failed state transition, a failed load of messages or receipts, a failed
\* store read), and then the keys of that tipset and of the later tipsets of
\* the chain, all of which are in the cache; a call that fails before its
\* first syncOne adds none.
C27_FailedSyncPoisoned ==
  \A p \in Procs :
    LET pr == proc[p]
    IN /\ (InCriticalSection(p) /\ PoisonedBy(pr) # {}) =>
            /\ pr.pc = "ret"
            /\ pr.err \in {"invalid", "load", "store"}
            /\ pr.phase = "chain"
            /\ pr.next = pr.chain[pr.i + 1]
            /\ pr.next \in SyncedBy(pr)
            /\ PoisonedBy(pr) \subseteq TipSetsOf(ChainFrom(pr.chain, pr.i))
            /\ TipSetsOf(ChainFrom(pr.chain, pr.i)) \subseteq badTipSets
       /\ (pr.pc = "ret" /\ SyncedBy(pr) = {}) => PoisonedBy(pr) = {}

\* C27 witness: the messages of the first tipset of a chain of two could not
\* be loaded, the state evaluator rejects no block, and the call has returned
\* with both tipsets added to the cache.
C27_Witness ==
  \E p \in Procs :
    /\ proc[p].pc = "ret"
    /\ proc[p].err = "load"
    /\ invalid = {}
    /\ Len(proc[p].chain) = 2
    /\ proc[p].i = 0
    /\ PoisonedBy(proc[p]) = TipSetsOf(proc[p].chain)

\* ------------------------------------------------------------ syncer: widen

\* The call has widened the first tipset of its chain and has not yet begun
\* the syncOne that follows: pr.wts is what widen returned.
AfterWiden(pr) == pr.pc = "syncOne" /\ pr.i = 0 /\ SyncedBy(pr) = {}

\* The stored tipsets with the parents and the height of ts.
StoredSiblings(store, ts) ==
  {e.TipSet : e \in GetTipSetAndStatesByParentsAndHeight(store, Parents(ts),
                                                         Height(ts))}

SyncOrder(pr) ==
  LET runs == SelectSeq(pr.events, LAMBDA e : e.ev = "syncOne")
  IN [j \in 1 .. Len(runs) |-> runs[j].ts]

\* One sequence begins another.
IsPrefix(s, t) == Len(s) <= Len(t) /\ s = SubSeq(t, 1, Len(s))

\* The syncOne runs of a whole call: the widened first tipset if there is
\* one, the first tipset unless it was widened and is the only one, and the
\* later tipsets of the chain.
FullSyncOrder(pr) ==
  (IF Defined(pr.wts) THEN <<pr.wts>> ELSE <<>>)
  \o (IF ~Defined(pr.wts) \/ Len(pr.chain) > 1 THEN <<pr.chain[1]>> ELSE <<>>)
  \o Tail(pr.chain)

\* The head after a syncOne of ts that succeeds, from the head hd.
HeadAfterSync(hd, ts) == IF IsHeavier(ts, hd) THEN ts ELSE hd

\* C29: a call syncs, in this order and each once, the widened first tipset
\* if widen returned one, the first tipset of the chain unless it was widened
\* and is the only one, and the later tipsets of the chain; the widened
\* tipset is formed from the first tipset; the first and the widened tipset
\* are synced with the stored parent and grandparent of the first, every
\* later tipset with the chain tipset before it as parent and that tipset's
\* parent as grandparent; and after a call that skipped its only tipset, a
\* sync of that tipset would leave the head as it is.
C29_WidenOnlyFirst ==
  \A p \in Procs :
    LET pr == proc[p]
    IN pr.chain # <<>> =>
         /\ IsPrefix(SyncOrder(pr), FullSyncOrder(pr))
         /\ Succeeded(pr) => SyncOrder(pr) = FullSyncOrder(pr)
         /\ Defined(pr.wts) =>
              /\ pr.chain[1] \subseteq pr.wts
              /\ Height(pr.wts) = Height(pr.chain[1])
              /\ Parents(pr.wts) = Parents(pr.chain[1])
         /\ pr.pc \in {"syncOne", "validate", "weigh"} =>
              IF pr.i = 0
              THEN /\ pr.next \in {pr.wts, pr.chain[1]}
                   /\ pr.parent = Parents(pr.chain[1])
                   /\ pr.grandParent = Parents(pr.parent)
              ELSE /\ pr.next = pr.chain[pr.i + 1]
                   /\ pr.parent = pr.chain[pr.i]
                   /\ pr.grandParent = Parents(pr.chain[pr.i])
                   /\ pr.parent # pr.wts
         /\ (Succeeded(pr) /\ Len(pr.chain) = 1 /\ Defined(pr.wts)) =>
              HeadAfterSync(head, pr.chain[1]) = head

\* C29 witness: a call for a single tipset heavier than the head synced the
\* widened tipset only and has returned nil with the widened tipset as head.
C29_Witness ==
  \E p \in Procs :
    /\ Succeeded(proc[p])
    /\ Len(proc[p].chain) = 1
    /\ Defined(proc[p].wts)
    /\ IsHeavier(proc[p].chain[1], proc[p].head0)
    /\ SyncOrder(proc[p]) = <<proc[p].wts>>
    /\ head = proc[p].wts

\* The number of reorgs a call has counted (reorgCnt.Inc).
ReorgCount(pr) == Cardinality(EventsAt(pr, "reorg", TRUE))

\* new descends from cur: cur is new or an ancestor of new.
Descends(store, new, cur) == cur \in TipSetsOf(IterAncestors(store, new))

\* C30: a step counts a reorg only as the last step of a syncOne that changes
\* the head, and then counts one; a head change from cur to new is counted
\* exactly when the common ancestor of cur and new is not cur, which is
\* exactly when new does not descend from cur; a step that leaves the head
\* as it is counts none.
C30_ReorgCountedIffNotDescendant ==
  [][\A p \in Procs :
       LET counted == ReorgCount(proc'[p]) - ReorgCount(proc[p])
           common == FindCommonAncestor(chainStore', head, head')
       IN /\ counted > 0 => proc[p].pc = "weigh" /\ head' # head
          /\ head' = head => counted <= 0
          /\ (proc[p].pc = "weigh" /\ head' # head) =>
               /\ counted = IF common # head THEN 1 ELSE 0
               /\ (common # head) = ~Descends(chainStore', head', head)]_vars

\* C30 witness: the head moved to a tipset of the same height on another
\* fork, and the call counted one reorg.
C30_Witness ==
  \E p \in Procs :
    /\ ReorgCount(proc[p]) = 1
    /\ head # proc[p].head0
    /\ proc[p].head0 # Genesis
    /\ Height(head) = Height(proc[p].head0)
    /\ Len(proc[p].chain) = 1

\* ------------------------------------------- syncer: a failing reorg log

\* The outcomes of logReorg other than a logged diff: FindCommonAncestor
\* returned an error (a store read failed, or the chains share no ancestor),
\* or ReorgDiff did after the reorg was counted.
LogReorgFailures == {"FindCommonAncestor", "ReorgDiff"}

\* logReorg when `failure` happens: a warning, or a counted reorg without
\* its diff and an error message.
LogReorgFailed(failure) ==
  IF failure = "FindCommonAncestor"
  THEN <<Event("logWarning", {}, 0, FALSE)>>
  ELSE <<[ev |-> "reorg", ts |-> {}, h |-> 0, h2 |-> 0, b |-> TRUE],
         Event("logError", {}, 0, FALSE)>>

\* The error of logReorg handed on to the caller of syncOne.
AfterLogReorg_Propagated(failure) == "store"

\* What syncOne returns after logReorg: logReorg returns nothing, and syncOne
\* returns nil whatever logReorg met.
AfterLogReorg(failure) == NoError

\* syncOne, last step, when the tipset is heavier, the head is set and
\* logReorg then fails.
SyncOneWeighLogFails(p) ==
  /\ proc[p].pc = "weigh"
  /\ LET pr == proc[p]
         headTipSet == HeadToCompare(pr)
         headParentKey == Parents(headTipSet)
     IN /\ HasTipSetAndState(chainStore, pr.parent)
        /\ HasTipSetAndState(chainStore, headTipSet)
        /\ headParentKey # {} => HasTipSetAndState(chainStore, headParentKey)
        /\ ShouldSetHead(IsHeavier(pr.next, headTipSet))
        /\ SetHead(chainStore, head, pr.next).err = NoError
        /\ head' = SetHead(chainStore, head, pr.next).head
        /\ \E failure \in LogReorgFailures :
             /\ failure = "ReorgDiff" =>
                  IsReorg(headTipSet, pr.next,
                          FindCommonAncestor(chainStore, headTipSet, pr.next))
             /\ SyncOneReturns(
                  p,
                  [pr EXCEPT !.events =
                     Append(@, Event("SetHead", pr.next, Height(pr.next), FALSE))
                     \o LogReorgFailed(failure)],
                  AfterLogReorg(failure))
  /\ UNCHANGED <<chainStore, mu, invalid, queue, call, mj>>

NextLogFails == Next \/ \E p \in Procs : SyncOneWeighLogFails(p)

\* The syncer with a reorg log that may fail.
SpecLogFails == Init /\ [][NextLogFails]_vars

\* The number of failures of logReorg a call has met.
LogFailures(pr) ==
  Cardinality({j \in 1 .. Len(pr.events) :
                 pr.events[j].ev \in {"logWarning", "logError"}})

\* A record of a call without its events.
WithoutEvents(pr) == [pr EXCEPT !.events = <<>>]

\* C31: a step in which logReorg fails sets the head to the tipset of the
\* syncOne, leaves that tipset stored with its state, leaves the bad-tipset
\* cache as it was, and leaves the call where a syncOne that returned nil
\* leaves it: at the next syncOne, or returned with nil.
C31_LogFailureHarmless ==
  [][\A p \in Procs :
       LogFailures(proc'[p]) > LogFailures(proc[p]) =>
         /\ proc[p].pc = "weigh"
         /\ head' = proc[p].next
         /\ StoredWithState(chainStore', proc[p].next)
         /\ chainStore' = chainStore
         /\ badTipSets' = badTipSets
         /\ proc'[p].err = NoError
         /\ WithoutEvents(proc'[p])
              = WithoutEvents(AfterSyncOne(proc[p], NoError))]_vars

\* C31 witness: a call has returned nil with the head at the tipset it
\* declared, after FindCommonAncestor failed for that head change.
C31_Witness ==
  \E p \in Procs :
    /\ Succeeded(proc[p])
    /\ \E j \in 1 .. Len(proc[p].events) : proc[p].events[j].ev = "logWarning"
    /\ head = proc[p].ciHead
    /\ proc[p].head0 # Genesis
    /\ badTipSets = proc[p].bad0

\* -------------------------------------------- syncer: syncOne of the head

\* syncOne called for the tipset that is the head, with the head's parent
\* and grandparent. HandleNewTipSet itself never does so: what it passes to
\* syncOne is not in the store, and the head is.
SyncOneOfHead(p) ==
  /\ proc[p].pc = "check"
  /\ proc' = [proc EXCEPT ![p] =
                [proc[p] EXCEPT !.pc = "syncOne", !.ciHead = head,
                                !.chain = <<head>>, !.i = 0, !.next = head,
                                !.parent = Parents(head),
                                !.grandParent = Parents(Parents(head)),
                                !.phase = "chain"]]
  /\ UNCHANGED <<chainStore, head, badTipSets, mu, invalid, queue, call, mj>>

NextSyncOne == Next \/ \E p \in Procs : SyncOneOfHead(p)

\* The syncer, and syncOne called for the head as well.
SpecSyncOne == Init /\ [][NextSyncOne]_vars

\* C32: the first step of a syncOne changes neither store nor head; a
\* syncOne that fails in the state transition or before it leaves the store
\* and the head as they were, with the head the one it read at its start and
\* its tipset not in the store; and a syncOne of the tipset that is the head
\* returns nil at once, with no state transition, no change of store, head
\* or bad-tipset cache, and the call goes on as after any syncOne that
\* returned nil.
C32_FailedSyncOneLeavesStore ==
  [][\A p \in Procs :
       LET pr == proc[p]
           failed == pr.pc = "validate" /\ proc'[p].pc = "ret"
                     /\ proc'[p].err # NoError
       IN /\ pr.pc = "syncOne" => chainStore' = chainStore /\ head' = head
          /\ failed =>
               /\ chainStore' = chainStore
               /\ head' = head
               /\ head' = pr.priorHeadKey
               /\ ~HasTipSetAndState(chainStore', pr.next)
          /\ (pr.pc = "syncOne" /\ pr.next = head) =>
               /\ proc'[p].pc # "validate"
               /\ proc'[p].err = NoError
               /\ EvaluatedBy(proc'[p]) = EvaluatedBy(pr)
               /\ badTipSets' = badTipSets
               /\ WithoutEvents(proc'[p])
                    = WithoutEvents(AfterSyncOne([pr EXCEPT !.priorHeadKey = head],
                                                 NoError))]_vars

\* C32 witness: a syncOne of the head, a tipset above genesis, has returned
\* nil without a state transition.
C32_Witness ==
  \E p \in Procs :
    /\ Succeeded(proc[p])
    /\ head # Genesis
    /\ SyncedBy(proc[p]) = {head}
    /\ EvaluatedBy(proc[p]) = {}
    /\ chainStore = proc[p].store0
    /\ head = proc[p].head0

\* ------------------------------------------- claims on the queue, continued

\* ExpireBefore has just returned; its threshold.
ExpireReturned == call.op = "ExpireBefore"

ExpireThreshold == call.new[1]

\* The stamps of the entries of a queue.
StampsOf(qs) == {qs[j].Stamp : j \in 1 .. Len(qs)}

\* C33 as stated: ExpireBefore(t) leaves of every sender's queue exactly the
\* entries whose stamp is greater than t, in their order.
C33_ExpiresEntriesAtOrBelow ==
  ExpireReturned =>
    \A s \in Senders :
      queue[s] = SelectSeq(call.before[s],
                           LAMBDA e : ~(e.Stamp <= ExpireThreshold))

\* C33, amended: ExpireBefore(t) empties the queue of every sender that has
\* an entry with a stamp strictly below t, the entries with stamps at or
\* above t included, and leaves every other sender's queue as it was; so no
\* queue is left with a gap in its nonces.
C33_ExpiresWholeSenders ==
  ExpireReturned =>
    \A s \in Senders :
      /\ call.err = QueueOK
      /\ IF \E st \in StampsOf(call.before[s]) : st < ExpireThreshold
         THEN queue[s] = <<>>
         ELSE queue[s] = call.before[s]
      /\ \A j \in 1 .. Len(queue[s]) - 1 :
           queue[s][j + 1].Msg.nonce = queue[s][j].Msg.nonce + 1

\* C33 witness: ExpireBefore emptied a queue that held an entry with a stamp
\* at the threshold, and kept another sender's queue whose oldest stamp is
\* at the threshold.
C33_Witness ==
  /\ ExpireReturned
  /\ \E s \in Senders :
       /\ queue[s] = <<>>
       /\ ExpireThreshold \in StampsOf(call.before[s])
  /\ \E s \in Senders :
       /\ queue[s] # <<>>
       /\ Head(queue[s]).Stamp = ExpireThreshold

\* C34: a new head lower than the expiry window expires nothing: every
\* sender's queue is what mining left of it, the threshold being 0 and not a
\* wrapped-around difference.
C34_LowHeadExpiresNothing ==
  (PolicySucceeded /\ NewHeight(call.new) < ExpiryWindow) =>
    /\ ExpiryThreshold(NewHeight(call.new)) = 0
    /\ \A s \in Senders : queue[s] = Unmined(s)

\* C34 witness: a head at height 1 with window 10 mined nothing and left the
\* stamped queues of both senders as they were.
C34_Witness ==
  /\ PolicySucceeded
  /\ NewHeight(call.new) = 1
  /\ ExpiryWindow = 10
  /\ \A s \in Senders : queue[s] # <<>> /\ queue[s] = call.before[s]
  /\ \E s, t \in Senders : Head(queue[s]).Stamp # Head(queue[t]).Stamp

\* Enqueue has just returned; the entry it was called with, and its sender.
EnqueueReturned == call.op = "Enqueue"

EnqueueEntry == call.old[1]

EnqueueSender == EnqueueEntry.Msg.from

\* The enqueue followed the emptying of the sender's queue and carries a
\* nonce that queue had held.
EnqueuedAgain ==
  /\ EnqueueReturned
  /\ call.before[EnqueueSender] = <<>>
  /\ \E j \in 1 .. Len(call.new) :
       call.new[j].Msg.nonce >= EnqueueEntry.Msg.nonce

\* C35: Enqueue appends the message to its sender's queue when its nonce is
\* greater than every nonce queued for that sender, and otherwise fails and
\* leaves every queue as it was; on a queue that has been emptied a nonce it
\* held before is accepted again.
C35_EnqueueMonotonicOrRefused ==
  EnqueueReturned =>
    LET s  == EnqueueSender
        qs == call.before[s]
    IN /\ IF \A n \in {qs[j].Msg.nonce : j \in 1 .. Len(qs)} :
                EnqueueEntry.Msg.nonce > n
          THEN /\ call.err = QueueOK
               /\ queue = [call.before EXCEPT ![s] = Append(qs, EnqueueEntry)]
          ELSE /\ call.err # QueueOK
               /\ queue = call.before
       /\ EnqueuedAgain => (call.err = QueueOK /\ queue[s] = <<EnqueueEntry>>)

\* C35 witness: Enqueue refused a nonce already queued for the sender and
\* left a queue of two senders' messages as it was.
C35_Witness ==
  /\ EnqueueReturned
  /\ call.err # QueueOK
  /\ \E j \in 1 .. Len(call.before[EnqueueSender]) :
       call.before[EnqueueSender][j].Msg.nonce = EnqueueEntry.Msg.nonce
  /\ \A s \in Senders : queue[s] # <<>> /\ queue[s] = call.before[s]

\* ============================================= syncer: the store over calls

\* Every stored tipset but genesis has its parent stored with a state root.
ParentsStored(store) ==
  \A e \in store :
    e.TipSet # Genesis => StoredWithState(store, Parents(e.TipSet))

\* C36: from a store that holds genesis alone, HandleNewTipSet calls keep
\* the parent of every stored tipset other than genesis stored with a state
\* root, every stored tipset with a state root of its own, and never take a
\* stored tipset out of the store.
C36_ParentsStoredNothingRemoved ==
  /\ [](/\ StoredWithState(chainStore, Genesis)
        /\ ParentsStored(chainStore)
        /\ \A e \in chainStore : StoredWithState(chainStore, e.TipSet))
  /\ [][chainStore \subseteq chainStore']_vars

\* C36 witness: after calls of which one failed, the store holds tipsets of
\* two forks up to the greatest height, a widened tipset among them.
C36_Witness ==
  /\ \E p \in Procs : proc[p].pc = "ret" /\ proc[p].err # NoError
  /\ \E e, f \in chainStore :
       /\ Height(e.TipSet) = MaxHeight
       /\ Height(f.TipSet) = MaxHeight
       /\ e.TipSet \cap f.TipSet = {}
  /\ \E e \in chainStore : Cardinality(e.TipSet) > 1

\* The call has returned the error of the syncOne of chain[i], i > 0.
FailedPast(pr) ==
  pr.pc = "ret" /\ pr.err # NoError /\ pr.phase = "chain" /\ pr.i > 0

\* chain[:i] and chain[i:] as sets of tipsets.
SyncedPart(pr) == {pr.chain[j] : j \in 1 .. pr.i}

FailedPart(pr) == {pr.chain[j] : j \in pr.i + 1 .. Len(pr.chain)}

\* C37: a call that fails at chain[i], i > 0, undoes nothing: what the store
\* held at its start and the tipsets before index i are stored with their
\* state roots, the head is the heaviest of the head at its start and the
\* tipsets synced before index i, the failing step itself changes neither
\* store nor head, and the bad-tipset cache has gained exactly chain[i:], no
\* tipset before index i being among the keys the call added.
C37_FailurePastFirstKeepsProgress ==
  /\ [](\A p \in Procs :
          LET pr == proc[p]
          IN FailedPast(pr) =>
               /\ pr.store0 \subseteq chainStore
               /\ \A ts \in SyncedPart(pr) : StoredWithState(chainStore, ts)
               /\ head \in {pr.head0, pr.wts} \cup SyncedPart(pr)
               /\ \A ts \in {pr.head0} \cup SyncedPart(pr) :
                    Weight(head) >= Weight(ts)
               /\ badTipSets = pr.bad0 \cup FailedPart(pr)
               /\ SyncedPart(pr) \cap PoisonedBy(pr) = {})
  /\ [][\A p \in Procs :
          (~FailedPast(proc[p]) /\ FailedPast(proc'[p])) =>
            chainStore' = chainStore /\ head' = head]_vars

\* C37 witness: a call failed at the second tipset of its chain after the
\* first had become the head, the cache holding a key of an earlier call and
\* now the second tipset.
C37_Witness ==
  \E p \in Procs :
    LET pr == proc[p]
    IN /\ FailedPast(pr)
       /\ pr.i = 1
       /\ head = pr.chain[1]
       /\ head # pr.head0
       /\ pr.bad0 # {}
       /\ FailedPart(pr) # {}
       /\ FailedPart(pr) \cap pr.bad0 = {}

\* --------------------------------------------------------- syncer: the fetch

\* The call has returned the error of FetchTipSets.
FetchFailed(pr) == pr.pc = "ret" /\ pr.err = "fetch"

\* The call is past a fetch and an ancestorsFromStore that returned no
\* error.
InLoop(pr) ==
  \/ pr.pc \in {"widen", "syncOne", "validate", "weigh"}
  \/ pr.pc = "ret" /\ SyncedBy(pr) # {}

\* C38: a call that returns the error of FetchTipSets has changed neither
\* store nor head nor bad-tipset cache, has run no syncOne, and its last two
\* status updates are fetchComplete(true) and syncComplete(true); a fetch
\* without error yields a chain that is not empty and whose lowest tipset has
\* its parent in the store, so that ancestorsFromStore finds the parent, and
\* the grandparent unless the parent is genesis, and never fails.
C38_FetchErrorOrAnchoredChain ==
  \A p \in Procs :
    LET pr == proc[p]
        n  == Len(pr.events)
    IN /\ FetchFailed(pr) =>
            /\ chainStore = pr.store0
            /\ head = pr.head0
            /\ badTipSets = pr.bad0
            /\ SyncedBy(pr) = {}
            /\ n >= 2
            /\ pr.events[n - 1] = Event("fetchComplete", {}, 0, TRUE)
            /\ pr.events[n] = Event("syncComplete", {}, 0, TRUE)
       /\ InLoop(pr) =>
            /\ Len(pr.chain) > 0
            /\ HasTipSetAndState(pr.store0, Parents(pr.chain[1]))
            /\ pr.i = 0 =>
                 /\ pr.parent = Parents(pr.chain[1])
                 /\ IF pr.parent = Genesis
                    THEN ~Defined(pr.grandParent)
                    ELSE /\ pr.grandParent = Parents(pr.parent)
                         /\ HasTipSetAndState(pr.store0, pr.grandParent)
       /\ (pr.pc = "ret" /\ pr.err = "store") => SyncedBy(pr) # {}

\* C38 witness: the fetch failed after its first callback, in a call that
\* began with more than genesis in the store, a head that is not genesis and
\* a key in the bad-tipset cache.
C38_Witness ==
  \E p \in Procs :
    /\ FetchFailed(proc[p])
    /\ FetchHeads(proc[p]) # <<>>
    /\ Cardinality(chainStore) > 1
    /\ head # Genesis
    /\ badTipSets # {}

\* ============================================== syncer: progress of callers

\* A step of caller p inside HandleNewTipSet's critical section: the calls
\* of store, fetcher, state evaluator and selector it stands for return.
Running(p) ==
  \/ Check(p)
  \/ Fetch(p)
  \/ WidenFirst(p)
  \/ SyncOneBegin(p)
  \/ SyncOneValidate(p)
  \/ SyncOneWeigh(p)
  \/ Unlock(p)

\* The collaborators' calls terminate, and the mutex is fair: a caller that
\* finds the mutex free again and again gets it.
Fairness ==
  \A p \in Procs : WF_vars(Running(p)) /\ SF_vars(Lock(p))

\* NewSyncer with a state evaluator that rejects one block of the first
\* height: the calls then take every path, the nil return, the early return
\* and each error, at the first tipset of a chain and after it.
InitFair ==
  /\ Init
  /\ invalid \in {{b} : b \in {c \in Blocks : BlockHeight(c) = 1}}

\* The syncer with collaborators that terminate and a fair mutex.
SpecFair == InitFair /\ [][Next]_vars /\ Fairness

\* C39: every caller that holds the mutex returns from HandleNewTipSet and
\* gives it up, on whatever path, and every caller waiting at the mutex gets
\* it.
C39_CallsReturnCallersEnter ==
  \A p \in Procs :
    /\ (p \in mu) ~> (p \notin mu /\ proc[p].pc = "lock")
    /\ (p \notin mu /\ proc[p].pc = "lock") ~> (p \in mu)

\* C39 witness: one caller has returned an error and still holds the mutex
\* while another waits for it.
C39_Witness ==
  \E p, q \in Procs :
    /\ p # q
    /\ proc[p].pc = "ret"
    /\ proc[p].err # NoError
    /\ mu = {p}
    /\ proc[q].pc = "lock"

\* ================================================================= journal

\* The greatest number of writers of the journal and of entries of a writer.
MaxWriters == 3

MaxEntries == 2

\* The topics asked for, the events written, and the key-value lists written
\* with them: none, a pair, a pair that replaces a key, a key without a
\* value, and a key that is no string.
Topics == {"testing", "chain"}

Events == {"event1"}

StringArg(s) == [type |-> "string", val |-> s]

IntArg(s) == [type |-> "int", val |-> s]

KeyValues ==
  {<<>>,
   <<StringArg("foo"), StringArg("bar")>>,
   <<StringArg("foo"), StringArg("bar"), StringArg("foo"), IntArg("42")>>,
   <<StringArg("foo")>>,
   <<StringArg("foo"), StringArg("bar"), StringArg("name")>>,
   <<IntArg("42"), StringArg("bar")>>}

\* No operation on the journal has just been called.
NoJournalCall == CallRecord("none", <<>>, <<>>, NewInMemoryJournal, NoError)

\* The program has panicked: it takes no further step.
Panicked == call.err = "panic"

\* mj.Topic(topic)
JTopic ==
  /\ call = NoJournalCall
  /\ Len(mj.writers) < MaxWriters
  /\ \E topic \in Topics :
       LET r == Topic(mj, topic)
       IN /\ mj' = r.mj
          /\ call' = CallRecord("Topic", <<topic>>, <<r.writer>>, mj,
                                IF r.panic THEN "panic" ELSE NoError)
  /\ UNCHANGED <<svars, queue>>

\* topicJ.Write(event, kvs...) on a writer the journal has returned.
JWrite ==
  /\ call = NoJournalCall
  /\ \E w \in 1 .. Len(mj.writers), event \in Events, kvs \in KeyValues :
       /\ Len(mj.writers[w].entries) < MaxEntries
       /\ LET r == Write(mj, w, event, kvs)
          IN /\ mj' = r.mj
             /\ call' = CallRecord("Write", <<event>>, <<w>>, mj,
                                   IF r.panic THEN "panic" ELSE NoError)
  /\ UNCHANGED <<svars, queue>>

\* The caller goes on after a call that returned.
JReturn ==
  /\ call # NoJournalCall
  /\ ~Panicked
  /\ call' = NoJournalCall
  /\ UNCHANGED <<svars, queue, mj>>

\* A new journal, beside a syncer and a queue that are never called.
InitJournal ==
  /\ chainStore = {TipSetAndState(Genesis, StateRootOf(Genesis))}
  /\ head = Genesis
  /\ badTipSets = {}
  /\ mu = {}
  /\ invalid = {}
  /\ proc = [p \in Procs |-> IdleProc]
  /\ queue = NewQueue
  /\ call = NoJournalCall
  /\ mj = NewInMemoryJournal

NextJournal ==
  \/ JTopic
  \/ JWrite
  \/ JReturn

SpecJournal == InitJournal /\ [][NextJournal]_vars

\* The topics of the writers of a journal.
WriterTopics(j) == {j.writers[w].topic : w \in 1 .. Len(j.writers)}

\* C40 as stated: Topic called with a topic that a writer of the journal
\* already has panics and leaves the journal as it was; Topic called with a
\* new topic returns a new writer without entries, appended to the journal's
\* writers; and a Write that returns has appended exactly one entry, the last
\* of its writer, and changed nothing else.
C40_DuplicateTopicPanics ==
  /\ call.op = "Topic" =>
       IF call.old[1] \in WriterTopics(call.before)
       THEN Panicked /\ mj = call.before
       ELSE /\ ~Panicked
            /\ call.new[1] = Len(call.before.writers) + 1
            /\ mj.writers = Append(call.before.writers,
                                   MemoryWriter(call.old[1]))
  /\ (call.op = "Write" /\ ~Panicked) =>
       LET w == call.new[1]
           was == call.before.writers[w].entries
           now == mj.writers[w].entries
       IN /\ Len(now) = Len(was) + 1
          /\ SubSeq(now, 1, Len(was)) = was
          /\ now[Len(now)].event = call.old[1]
          /\ \A v \in 1 .. Len(mj.writers) :
               v # w => mj.writers[v] = call.before.writers[v]
          /\ Len(mj.writers) = Len(call.before.writers)
====
